---- MODULE Spec2Model ----
(***************************************************************************)
(* Verification model of serene416/friend.                                 *)
(*                                                                         *)
(* Part 1: RecommendationService.get_midpoint_hotplaces                    *)
(* (src/backend/app/services/recommendation_service.py): the call-budget   *)
(* guard, the response cache with its Redis -> in-memory demotion, the     *)
(* station (anchor) search, the keyword fan-out under a semaphore, the     *)
(* de-duplication of hotplaces, the cache write and the optional           *)
(* ingestion enqueue.                                                      *)
(*                                                                         *)
(* Conventions.                                                            *)
(*  - Coordinates are integers in units of 1e-5 degree.                    *)
(*  - Korean string literals of the source are written with ASCII          *)
(*    stand-ins ("rain" for the weather key U+BE44, "yeok" for the station *)
(*    suffix U+C5ED, ...); the stand-in is named where it is introduced.   *)
(*  - Python None is None where a record is expected, NoneInt where an     *)
(*    integer is expected and NoneStr where a string is expected.          *)
(*  - sha256 over the canonical JSON text is taken to be collision free:   *)
(*    a cache key is represented by the JSON payload it digests.           *)
(***************************************************************************)
EXTENDS Integers, Sequences, FiniteSets, TLC

None == [none |-> TRUE]
NoneStr == "None"
NoneInt == 0 - 1

(***************************************************************************)
(* Program constants.                                                      *)
(***************************************************************************)
\* len(PREDEFINED_PLAY_KEYWORDS): 13 + 10 + 8 + 11 + 7 + 8 keywords.
NumKeywords == 57
FIXED_STATION_LIMIT == 1
FIXED_PAGES == 1
HTTP_400_BAD_REQUEST == 400
HTTP_502_BAD_GATEWAY == 502
HTTP_503_SERVICE_UNAVAILABLE == 503

\* PREDEFINED_PLAY_KEYWORDS, by position in the list.
PREDEFINED_PLAY_KEYWORDS == 1..NumKeywords

(***************************************************************************)
(* Bounds of the model.                                                    *)
(***************************************************************************)
\* Requests served in one behaviour.
MaxRequests == 2
\* The clock runs from 0 to MaxTime (seconds).
MaxTime == 2
\* MIDPOINT_CACHE_TTL_SECONDS of the modelled instance (any integer >= 1).
CacheTtl == 2

(***************************************************************************)
(* Requests (MidpointHotplaceRequest, schemas/recommendation.py:52-76).    *)
(* A request is a record                                                   *)
(*   participants : sequence of <<lat, lng>> (1e-5 degree),                *)
(*   station_radius, place_radius, size, station_limit, pages : integers,  *)
(*   keywords : a value standing for the requested keyword list,           *)
(*   weather_key : a string, or NoneStr.                                   *)
(* Weather keys (ASCII stand-ins for the Korean literals of the source):   *)
(*   "clear" "cloudy" "overcast" "rain" "snow" "default" are the six       *)
(*   SUPPORTED_WEATHER_KEYS; "raindrop" "rain/snow" "raindrop-snowflurry"  *)
(*   "shower" are the four aliases of "rain"; "snowflurry" is the alias of *)
(*   "snow"; "fog" is an unsupported key; "  " is a blank key.             *)
(***************************************************************************)
SUPPORTED_WEATHER_KEYS == {"clear", "cloudy", "overcast", "rain", "snow", "default"}
RAINY_WEATHER_KEYS == {"rain", "snow"}

\* str.strip() on the weather keys of the model: only "  " is blank, and
\* " rain " carries surrounding white space.
Strip(s) ==
    CASE s = "  " -> ""
      [] s = " rain " -> "rain"
      [] OTHER -> s

_normalize_weather_key(raw_weather_key) ==
    IF raw_weather_key = NoneStr THEN NoneStr
    ELSE LET normalized == Strip(raw_weather_key) IN
         IF normalized = "" THEN NoneStr
         ELSE IF normalized \in {"raindrop", "rain/snow", "raindrop-snowflurry", "shower"}
              THEN "rain"
         ELSE IF normalized \in {"snowflurry"} THEN "snow"
         ELSE IF normalized \notin SUPPORTED_WEATHER_KEYS THEN "default"
         ELSE normalized

Abs(n) == IF n < 0 THEN -n ELSE n

\* round(x, 4) of a float x = c * 1e-5 that is no rounding tie (c mod 10 # 5):
\* the result is a float, so it keeps the sign of x even when it is zero
\* (round(-0.00001, 4) is -0.0).  mag is in units of 1e-4 degree.
Round4(c) == [neg |-> c < 0, mag |-> (Abs(c) + 5) \div 10]

\* The numeric value of a rounded float: -0.0 and 0.0 are the same number.
FloatValue(f) == IF f.neg THEN 0 - f.mag ELSE f.mag

\* Python's tuple order on <<lat, lng>> pairs of floats, by numeric value.
PairLess(a, b) ==
    \/ FloatValue(a[1]) < FloatValue(b[1])
    \/ FloatValue(a[1]) = FloatValue(b[1]) /\ FloatValue(a[2]) < FloatValue(b[2])

\* Insert x behind every element that is not greater than it (stable).
RECURSIVE InsertPair(_, _)
InsertPair(x, sorted) ==
    IF sorted = <<>> THEN <<x>>
    ELSE IF PairLess(x, Head(sorted)) THEN <<x>> \o sorted
    ELSE <<Head(sorted)>> \o InsertPair(x, Tail(sorted))

\* sorted(...) of a sequence of pairs: a stable sort.
RECURSIVE SortedPairs(_)
SortedPairs(seq) ==
    IF seq = <<>> THEN <<>>
    ELSE InsertPair(seq[Len(seq)], SortedPairs(SubSeq(seq, 1, Len(seq) - 1)))

\* The JSON payload whose sha256 digest is the cache key.  json.dumps
\* writes a float by repr, so -0.0 and 0.0 are different texts: the record
\* keeps the rounded floats with their sign.
_build_cache_key(req) ==
    [ participants   |-> SortedPairs([i \in 1..Len(req.participants) |->
                            << Round4(req.participants[i][1]),
                               Round4(req.participants[i][2]) >>]),
      station_radius |-> req.station_radius,
      place_radius   |-> req.place_radius,
      size           |-> req.size,
      station_limit  |-> FIXED_STATION_LIMIT,
      pages          |-> FIXED_PAGES,
      keywords       |-> PREDEFINED_PLAY_KEYWORDS,
      weather_key    |-> _normalize_weather_key(req.weather_key) ]

\* A variant that leaves the station search out of the count.
ExpectedCallsWithoutStationSearch(station_limit, keyword_count, pages) ==
    station_limit * keyword_count * pages

_calculate_expected_kakao_calls(station_limit, keyword_count, pages) ==
    1 + (station_limit * keyword_count * pages)

(***************************************************************************)
(* Directory documents.                                                    *)
(* A station or place document is a record with the fields the code reads: *)
(*   id : a natural number standing for a digit string of one fixed        *)
(*        length (so the string order is the numeric order), 0 for the     *)
(*        empty or missing id;                                             *)
(*   place_name : a string, "" when missing or blank;                      *)
(*   x, y : longitude and latitude in 1e-5 degree, 0 when missing;         *)
(*   distance : a natural number or NoneInt.                               *)
(* "Gangnam-yeok" stands for the station name whose last character is the  *)
(* station suffix; "Interior" for a name holding a strong filter term.     *)
(***************************************************************************)
StationDoc(id, name) ==
    [id |-> id, place_name |-> name, x |-> 12702760, y |-> 3749790, distance |-> 80]

PlaceDoc(id, name, x, y, distance) ==
    [id |-> id, place_name |-> name, x |-> x, y |-> y, distance |-> distance]

_normalize_station_name(raw_station_name) ==
    IF raw_station_name = "Gangnam-yeok" THEN "Gangnam" ELSE raw_station_name

\* A variant that builds a station from any document.
BuildStationUnchecked(station_doc) ==
    [ kakao_place_id |-> station_doc.id,
      station_name   |-> _normalize_station_name(station_doc.place_name),
      original_name  |-> station_doc.place_name,
      x |-> station_doc.x, y |-> station_doc.y,
      distance |-> station_doc.distance ]

\* None when the document lacks a usable name or identifier.
_build_station(station_doc) ==
    IF station_doc.place_name = "" \/ station_doc.id = 0 THEN None
    ELSE [ kakao_place_id |-> station_doc.id,
           station_name   |-> _normalize_station_name(station_doc.place_name),
           original_name  |-> station_doc.place_name,
           x |-> station_doc.x, y |-> station_doc.y,
           distance |-> station_doc.distance ]

\* IRRELEVANT_PLACE_STRONG_FILTER_TERMS occurs in the searchable text.
_is_irrelevant_place_for_play(place_doc) == place_doc.place_name = "Interior"

\* None when the document is rejected.
_build_hotplace(place_doc, source_station, source_keyword) ==
    IF place_doc.id = 0 \/ place_doc.place_name = "" THEN None
    ELSE IF _is_irrelevant_place_for_play(place_doc) THEN None
    ELSE [ kakao_place_id |-> place_doc.id,
           place_name     |-> place_doc.place_name,
           x |-> place_doc.x, y |-> place_doc.y,
           distance       |-> place_doc.distance,
           source_station |-> source_station,
           source_keyword |-> source_keyword,
           naver_rating   |-> NoneInt,
           naver_rating_count |-> NoneInt,
           ranking_score  |-> NoneInt ]

\* chosen_stations: the stations built from the documents, in order, cut to
\* the applied station limit.
RECURSIVE BuildStations(_)
BuildStations(station_docs) ==
    IF station_docs = <<>> THEN <<>>
    ELSE LET station == _build_station(Head(station_docs)) IN
         (IF station = None THEN <<>> ELSE <<station>>)
             \o BuildStations(Tail(station_docs))

ChosenStations(station_docs, applied_station_limit) ==
    LET built == BuildStations(station_docs) IN
    SubSeq(built, 1, IF Len(built) < applied_station_limit
                     THEN Len(built) ELSE applied_station_limit)

\* The fan-out's task list: one (station, keyword, page) triple per task, in
\* the order of the comprehension (stations, then keywords, then pages).
RECURSIVE CrossTasks(_, _, _)
CrossTasks(stations, keywords, pages) ==
    IF stations = <<>> THEN <<>>
    ELSE LET n == Len(keywords) * pages
             one == [i \in 1..n |->
                       [ station |-> Head(stations),
                         keyword |-> keywords[((i - 1) \div pages) + 1],
                         page    |-> ((i - 1) % pages) + 1 ]]
         IN one \o CrossTasks(Tail(stations), keywords, pages)

(***************************************************************************)
(* De-duplication (get_midpoint_hotplaces, lines 1464-1474): a dict keyed  *)
(* by kakao_place_id keeps insertion order; an id already present is       *)
(* skipped.  keyword_results[i] is <<source_station, source_keyword,       *)
(* place_docs>>.                                                           *)
(***************************************************************************)
HasId(hotplaces, id) == \E i \in 1..Len(hotplaces) : hotplaces[i].kakao_place_id = id

\* A variant without the membership test: a later document with an id
\* already present replaces the value kept under that id.
RECURSIVE DedupeDocsLastWins(_, _, _, _)
DedupeDocsLastWins(deduped, place_docs, source_station, source_keyword) ==
    IF place_docs = <<>> THEN deduped
    ELSE LET hotplace == _build_hotplace(Head(place_docs), source_station, source_keyword)
             next == IF hotplace = None THEN deduped
                     ELSE IF HasId(deduped, hotplace.kakao_place_id)
                          THEN [i \in 1..Len(deduped) |->
                                  IF deduped[i].kakao_place_id = hotplace.kakao_place_id
                                  THEN hotplace ELSE deduped[i]]
                     ELSE Append(deduped, hotplace)
         IN DedupeDocsLastWins(next, Tail(place_docs), source_station, source_keyword)

RECURSIVE DedupeDocs(_, _, _, _)
DedupeDocs(deduped, place_docs, source_station, source_keyword) ==
    IF place_docs = <<>> THEN deduped
    ELSE LET hotplace == _build_hotplace(Head(place_docs), source_station, source_keyword)
             next == IF hotplace = None THEN deduped
                     ELSE IF HasId(deduped, hotplace.kakao_place_id) THEN deduped
                     ELSE Append(deduped, hotplace)
         IN DedupeDocs(next, Tail(place_docs), source_station, source_keyword)

\* The loop over results[lo..hi], in order; the range is folded in two
\* halves so that the evaluation stays shallow on a long task list.
RECURSIVE DedupeRange(_, _, _, _)
DedupeRange(deduped, results, lo, hi) ==
    IF lo > hi THEN deduped
    ELSE IF lo = hi
    THEN DedupeDocs(deduped, results[lo][3], results[lo][1], results[lo][2])
    ELSE LET middle == (lo + hi) \div 2
             lower == DedupeRange(deduped, results, lo, middle)
         IN  IF Len(lower) >= 0 THEN DedupeRange(lower, results, middle + 1, hi) ELSE lower

\* A variant that merges the results from the last call to the first.
DedupeResultsLastCallFirst(deduped, results) ==
    DedupeRange(deduped, [i \in 1..Len(results) |-> results[Len(results) + 1 - i]],
                1, Len(results))

DedupeResults(deduped, results) == DedupeRange(deduped, results, 1, Len(results))

deduped_hotplaces(results) == DedupeResults(<<>>, results)

(***************************************************************************)
(* Ranking (_rank_hotplaces, lines 1096-1155).  Component scores are       *)
(* integers in units of 1e-6 and the final score, rounded to four          *)
(* decimals, in units of 1e-4; weights are in percent; a rating is in      *)
(* hundredths (4.90 is 490), as _to_optional_rating rounds it.             *)
(* Activity categories (ASCII stand-ins): "active" "game" "craft"          *)
(* "healing" "culture" "shopping" "etc".                                   *)
(***************************************************************************)
NEUTRAL_COMPONENT_SCORE == 500000

DEFAULT_RANKING_WEIGHTS == [distance |-> 30, rating |-> 5, weather |-> 20, confidence |-> 45]
RAINY_RANKING_WEIGHTS   == [distance |-> 25, rating |-> 5, weather |-> 25, confidence |-> 45]

Suitability(active, game, culture, healing, craft, shopping, etc) ==
    [active |-> active, game |-> game, culture |-> culture, healing |-> healing,
     craft |-> craft, shopping |-> shopping, etc |-> etc]

WEATHER_CATEGORY_SUITABILITY ==
    [ clear    |-> Suitability(780000, 760000, 840000, 860000, 820000, 900000, 750000),
      cloudy   |-> Suitability(820000, 820000, 850000, 870000, 840000, 840000, 760000),
      overcast |-> Suitability(860000, 860000, 880000, 880000, 850000, 780000, 750000),
      rain     |-> Suitability(950000, 950000, 900000, 920000, 880000, 700000, 620000),
      snow     |-> Suitability(950000, 950000, 910000, 920000, 880000, 660000, 600000),
      default  |-> Suitability(NEUTRAL_COMPONENT_SCORE, NEUTRAL_COMPONENT_SCORE,
                               NEUTRAL_COMPONENT_SCORE, NEUTRAL_COMPONENT_SCORE,
                               NEUTRAL_COMPONENT_SCORE, NEUTRAL_COMPONENT_SCORE,
                               NEUTRAL_COMPONENT_SCORE) ]

\* KEYWORD_TO_PLAY_CATEGORY by position in PREDEFINED_PLAY_KEYWORDS: the six
\* category lists hold 13, 10, 8, 11, 7 and 8 keywords.
_map_keyword_to_play_category(source_keyword) ==
    IF source_keyword <= 13 THEN "active"
    ELSE IF source_keyword <= 23 THEN "game"
    ELSE IF source_keyword <= 31 THEN "craft"
    ELSE IF source_keyword <= 42 THEN "healing"
    ELSE IF source_keyword <= 49 THEN "culture"
    ELSE "shopping"

_clamp_unit(value) == IF value < 0 THEN 0 ELSE IF value > 1000000 THEN 1000000 ELSE value

\* Coordinates out of range or at the (0, 0) origin score neutrally.  Every
\* located place of the model lies more than 40 km from every participant,
\* where exp(-avg/2.5) * exp(-std/1.0) is below 1e-7: 0 at the four decimals
\* the final score is rounded to.
_calculate_distance_score(hotplace, req) ==
    IF ~(-9000000 <= hotplace.y /\ hotplace.y <= 9000000
         /\ -18000000 <= hotplace.x /\ hotplace.x <= 18000000)
    THEN NEUTRAL_COMPONENT_SCORE
    ELSE IF hotplace.x = 0 /\ hotplace.y = 0 THEN NEUTRAL_COMPONENT_SCORE
    ELSE 0

\* clamp((log1p(rating_count) / log1p(RATING_CONFIDENCE_MAX_COUNT)) ** 1.35)
\* at the rating counts of the model, rounded to 1e-6.
ReviewCountConfidence(rating_count) ==
    CASE rating_count = 0 -> 0
      [] rating_count = 5 -> 142142
      [] rating_count = 40 -> 380200
      [] rating_count = 120 -> 536976
      [] rating_count >= 2000 -> 1000000

\* The nearest integer to num / den (den > 0, num >= 0).
RoundDiv(num, den) == (2 * num + den) \div (2 * den)

\* num / den in units of 1e-6 (0 <= num < den), divided in two steps to stay
\* within 32 bits.
UnitRatio(num, den) ==
    LET thousandths == (1000 * num) \div den
    IN 1000 * thousandths + RoundDiv(1000 * ((1000 * num) % den), den)

\* A variant whose confidence does not depend on the rating count.
RatingScoreWithNeutralConfidence(hotplace) ==
    IF hotplace.naver_rating = NoneInt
    THEN <<NEUTRAL_COMPONENT_SCORE, NEUTRAL_COMPONENT_SCORE>>
    ELSE LET rating_count == IF hotplace.naver_rating_count = NoneInt
                                \/ hotplace.naver_rating_count < 0
                             THEN 0 ELSE hotplace.naver_rating_count
             above_baseline == rating_count * hotplace.naver_rating + 80 * 420
                               - 350 * (rating_count + 80)
             full_scale == 150 * (rating_count + 80)
             rating_score == IF above_baseline < 0 THEN 0
                             ELSE IF above_baseline >= full_scale THEN 1000000
                             ELSE _clamp_unit(UnitRatio(above_baseline, full_scale))
         IN <<rating_score, NEUTRAL_COMPONENT_SCORE>>

\* <<rating_score, confidence_score>>.  The Bayesian rating is
\* (n * rating + 80 * 4.2) / (n + 80) and the rating score is
\* clamp((bayesian_rating - 3.5) / 1.5).
_calculate_rating_score_and_confidence(hotplace) ==
    IF hotplace.naver_rating = NoneInt
    THEN <<NEUTRAL_COMPONENT_SCORE, NEUTRAL_COMPONENT_SCORE>>
    ELSE LET rating_count == IF hotplace.naver_rating_count = NoneInt
                                \/ hotplace.naver_rating_count < 0
                             THEN 0 ELSE hotplace.naver_rating_count
             above_baseline == rating_count * hotplace.naver_rating + 80 * 420
                               - 350 * (rating_count + 80)
             full_scale == 150 * (rating_count + 80)
             rating_score == IF above_baseline < 0 THEN 0
                             ELSE IF above_baseline >= full_scale THEN 1000000
                             ELSE _clamp_unit(UnitRatio(above_baseline, full_scale))
             confidence_score == IF hotplace.naver_rating_count = NoneInt
                                 THEN NEUTRAL_COMPONENT_SCORE
                                 ELSE ReviewCountConfidence(rating_count)
         IN <<rating_score, confidence_score>>

_calculate_weather_suitability_score(weather_key, activity_category) ==
    IF weather_key = NoneStr THEN NEUTRAL_COMPONENT_SCORE
    ELSE _clamp_unit(WEATHER_CATEGORY_SUITABILITY[weather_key][activity_category])

_resolve_ranking_weights(weather_key) ==
    IF weather_key \in RAINY_WEATHER_KEYS THEN RAINY_RANKING_WEIGHTS
    ELSE DEFAULT_RANKING_WEIGHTS

\* round(final_score, 4), the weighted sum being a multiple of 1e-6.
RankingScore(hotplace, req) ==
    LET weather_key == _normalize_weather_key(req.weather_key)
        weights == _resolve_ranking_weights(weather_key)
        rc == _calculate_rating_score_and_confidence(hotplace)
        total == weights.distance * _calculate_distance_score(hotplace, req)
                 + weights.rating * rc[1]
                 + weights.weather * _calculate_weather_suitability_score(
                       weather_key, _map_keyword_to_play_category(hotplace.source_keyword))
                 + weights.confidence * rc[2]
    IN (_clamp_unit(total \div 100) + 50) \div 100

NoneAsZero(v) == IF v = NoneInt THEN 0 ELSE v

\* A variant whose key has no "distance is None" component: a missing
\* distance counts as 0.
RankKeyLessMissingAsZero(a, b) ==
    LET sa == NoneAsZero(a.ranking_score)       sb == NoneAsZero(b.ranking_score)
        ca == NoneAsZero(a.naver_rating_count)  cb == NoneAsZero(b.naver_rating_count)
        da == NoneAsZero(a.distance)            db == NoneAsZero(b.distance)
    IN \/ sa > sb
       \/ sa = sb /\ ca > cb
       \/ sa = sb /\ ca = cb /\ da < db
       \/ sa = sb /\ ca = cb /\ da = db /\ a.kakao_place_id < b.kakao_place_id

\* The sort key of line 1147-1153, compared as Python compares tuples.
RankKeyLess(a, b) ==
    LET sa == NoneAsZero(a.ranking_score)       sb == NoneAsZero(b.ranking_score)
        ca == NoneAsZero(a.naver_rating_count)  cb == NoneAsZero(b.naver_rating_count)
        na == IF a.distance = NoneInt THEN 1 ELSE 0
        nb == IF b.distance = NoneInt THEN 1 ELSE 0
        da == NoneAsZero(a.distance)            db == NoneAsZero(b.distance)
    IN \/ sa > sb
       \/ sa = sb /\ ca > cb
       \/ sa = sb /\ ca = cb /\ na < nb
       \/ sa = sb /\ ca = cb /\ na = nb /\ na = 0 /\ da < db
       \/ sa = sb /\ ca = cb /\ na = nb /\ (na = 1 \/ da = db)
             /\ a.kakao_place_id < b.kakao_place_id

RECURSIVE InsertRanked(_, _)
InsertRanked(x, sorted) ==
    IF sorted = <<>> THEN <<x>>
    ELSE IF RankKeyLess(x, Head(sorted)) THEN <<x>> \o sorted
    ELSE <<Head(sorted)>> \o InsertRanked(x, Tail(sorted))

RECURSIVE SortRanked(_)
SortRanked(seq) ==
    IF seq = <<>> THEN <<>>
    ELSE InsertRanked(seq[Len(seq)], SortRanked(SubSeq(seq, 1, Len(seq) - 1)))

_rank_hotplaces(hotplaces, req) ==
    SortRanked([i \in 1..Len(hotplaces) |->
                  [hotplaces[i] EXCEPT !.ranking_score = RankingScore(hotplaces[i], req)]])

(***************************************************************************)
(* Inputs of the model.                                                    *)
(***************************************************************************)
\* The request of the test suite (_build_request), and variants of it.
BaseRequest ==
    [ participants   |-> << <<3700000, 12700000>>, <<3750000, 12750000>> >>,
      station_radius |-> 2000,
      place_radius   |-> 800,
      size           |-> 5,
      station_limit  |-> 7,
      pages          |-> 9,
      keywords       |-> "custom",
      weather_key    |-> NoneStr ]

\* Other overridden fields (the schema's defaults) and a rainy weather key.
RainyRequest ==
    [ BaseRequest EXCEPT !.station_limit = 2, !.pages = 2, !.keywords = "default",
                         !.weather_key = "shower" ]

Requests == {BaseRequest, RainyRequest}

\* What one keyword search may return.
DocA == PlaceDoc(11, "A", 12702760, 3749790, 120)
DocB == PlaceDoc(22, "B", 0, 0, NoneInt)
DocsMixed ==
    <<PlaceDoc(0, "NoId", 0, 0, NoneInt), PlaceDoc(33, "Interior", 0, 0, 5),
      PlaceDoc(44, "", 0, 0, 7), DocA, [DocA EXCEPT !.place_name = "A2"]>>

\* A directory: the first predefined keyword answers c1, the last one c2,
\* every other keyword returns no document.
Directory(c1, c2) ==
    [k \in PREDEFINED_PLAY_KEYWORDS |->
        IF k = 1 THEN c1 ELSE IF k = NumKeywords THEN c2 ELSE <<>>]

\* What the station search may return (size = station limit = 1).
StationDocChoices ==
    { <<>>,
      <<StationDoc(0, "Gangnam-yeok")>>,
      <<StationDoc(7, "")>>,
      <<StationDoc(7, "Gangnam-yeok")>> }

\* Exceptions a directory call may raise: KakaoLocalService raises an
\* HTTPException (503 on a connection failure or a missing API key);
\* anything else (a malformed body) is no HTTPException.  task is the
\* fan-out task that raised it (0: the station search).
DirectoryErrors ==
    { [http |-> TRUE,  status_code |-> HTTP_503_SERVICE_UNAVAILABLE, task |-> 0],
      [http |-> FALSE, status_code |-> NoneInt, task |-> 0] }

\* MAX_KAKAO_CALLS_PER_REQUEST: one call short of an aggregation (57, which
\* the guard blocks as it blocks the 50 of the guard test) and the number of
\* calls of one aggregation (58, which the default 70 allows too).
MaxCallsChoices == {57, 58}

EmptyMap == <<>>
Put(map, key, value) ==
    [k \in (DOMAIN map) \cup {key} |-> IF k = key THEN value ELSE map[k]]
Drop(map, key) == [k \in (DOMAIN map) \ {key} |-> map[k]]

(***************************************************************************)
(* State.                                                                  *)
(***************************************************************************)
VARIABLES
    \* set by __init__
    max_kakao_calls_per_request, keyword_concurrency, enable_ingestion_enqueue,
    redis_client,          \* TRUE when REDIS_URL gave a client
    redis_enabled,         \* self._redis_enabled
    memory_cache,          \* self._memory_cache: key -> <<expires_at, payload>>
    \* the environment
    redis_store,           \* the shared cache: key -> <<expires_at, payload>>
    now,                   \* the clock
    directory,             \* keyword -> documents
    flaky,                 \* the keywords whose search may raise
    \* the request being served
    pc, request, cache_key, cache_backend, station_docs, chosen_stations,
    tasks, task_state, keyword_results, semaphore, gather_exc, client_open,
    response, result,
    \* what the collaborators saw during the request being served
    station_calls, keyword_queries, overtaken, cache_lookups, redis_calls, enqueue_calls,
    ingestion_jobs,        \* redis_calls: calls made to the shared cache
    \* across requests
    served, last,
    \* feature attachment and ranking of one batch of hotplaces
    session,               \* "none": no session; "ok"; "fails": the query raises
    feature_rows,          \* place_ingestion_feature: kakao_place_id -> feature
    candidates,            \* the batch handed to _attach_hotplace_features
    rank_request,          \* the request the batch is ranked for
    enriched,              \* what _attach_hotplace_features returned
    ranked_hotplaces,      \* what _rank_hotplaces returned
    rank_pc,
    \* crawl_naver_place_bundle
    crawl_config,          \* NaverCrawlerConfig
    crawl_pc,
    channel,               \* "reviews" or "photos": the channel that runs
    collected,             \* the channel's deduplicated items
    guard,                 \* the channel's _NoGrowthGuard
    click_index,           \* loop iterations begun (click_index, scroll_index)
    counts,                \* len(collected) after each extraction
    stop_reason,           \* why the channel's loop ended
    warnings,
    crawl_result,          \* the bundle
    browser_session,
    page_visits,           \* the candidate URLs the channels went to, with what they found
    \* _dedupe_photos on one list of extracted photos
    photo_input,
    photo_output,
    dedupe_pc,
    \* resolve_naver_place_mapping
    place_name,
    found,                 \* what _extract_mapping_candidates returns
    mapping_pc,
    mapping_payload,
    mapping_session,
    \* create_ingestion_job_from_hotplaces, one entry per call
    ingest_pc,
    ingest_hotplaces,      \* the argument of the call
    ingest_job_id,         \* the local job_id
    ingest_outcome,        \* what the call returned, or the error it raised
    job_table,             \* the committed ingestion_job rows
    broker_queue,          \* the messages delivered to the task broker
    next_job_id,           \* the identifier the next IngestionJob gets
    \* one call of _safe_goto, _safe_click, _safe_scroll or _safe_extract
    retry_frame,           \* the wrapper, its _retry_action round and attempt
    action_log,             \* the invocations of the action, with their outcome
    \* _pick_best_kakao_document on one list of documents
    kakao_lookup,
    \* the table place_ingestion_feature and the calls of the upsert
    feature_table,
    upsert_log,
    \* one call of _maybe_enqueue_ingestion_job
    recrawl_filter,
    \* one run of ingest_job
    ingest_run

config_vars == <<max_kakao_calls_per_request, keyword_concurrency,
                 enable_ingestion_enqueue, redis_client, directory, flaky>>
cache_vars == <<redis_enabled, memory_cache, redis_store, redis_calls>>
fanout_vars == <<tasks, task_state, keyword_results, semaphore, gather_exc,
                 client_open, keyword_queries, overtaken>>
service_vars ==
    <<config_vars, cache_vars, fanout_vars, now, pc, request, cache_key,
      cache_backend, station_docs, chosen_stations, response, result, station_calls,
      cache_lookups, enqueue_calls, ingestion_jobs, served, last>>
ranking_vars == <<session, feature_rows, candidates, rank_request, enriched,
                  ranked_hotplaces, rank_pc>>
\* Everything but the variables of get_midpoint_hotplaces, and everything
\* but the variables of the ranking of one batch.
crawl_vars == <<crawl_config, crawl_pc, channel, collected, guard, click_index, counts,
                stop_reason, warnings, crawl_result, browser_session, page_visits>>
dedupe_vars == <<photo_input, photo_output, dedupe_pc>>
mapping_vars == <<place_name, found, mapping_pc, mapping_payload, mapping_session>>
ingest_vars == <<ingest_pc, ingest_hotplaces, ingest_job_id, ingest_outcome, job_table,
                 broker_queue, next_job_id>>
retry_vars == <<retry_frame, action_log>>
store_vars == <<kakao_lookup, feature_table, upsert_log, recrawl_filter, ingest_run>>
not_service ==
    <<ranking_vars, crawl_vars, dedupe_vars, mapping_vars, ingest_vars, retry_vars, store_vars>>
not_ranking ==
    <<service_vars, crawl_vars, dedupe_vars, mapping_vars, ingest_vars, retry_vars, store_vars>>
not_crawl ==
    <<service_vars, ranking_vars, dedupe_vars, mapping_vars, ingest_vars, retry_vars, store_vars>>
not_dedupe ==
    <<service_vars, ranking_vars, crawl_vars, mapping_vars, ingest_vars, retry_vars, store_vars>>
not_mapping ==
    <<service_vars, ranking_vars, crawl_vars, dedupe_vars, ingest_vars, retry_vars, store_vars>>
not_ingest ==
    <<service_vars, ranking_vars, crawl_vars, dedupe_vars, mapping_vars, retry_vars, store_vars>>
not_retry ==
    <<service_vars, ranking_vars, crawl_vars, dedupe_vars, mapping_vars, ingest_vars, store_vars>>
not_store ==
    <<service_vars, ranking_vars, crawl_vars, dedupe_vars, mapping_vars, ingest_vars,
      retry_vars>>
vars ==
    <<service_vars, ranking_vars, crawl_vars, dedupe_vars, mapping_vars, ingest_vars,
      retry_vars, store_vars>>

NoResult == [kind |-> "none", status_code |-> NoneInt, policy |-> FALSE, cause |-> None]
NoLast == [request |-> None, cache_key |-> None, kind |-> "none", at |-> 0,
           stored_in |-> NoneStr]
\* station_docs before the station search has answered.
NotSearched == [answered |-> FALSE, documents |-> <<>>]

\* The state after __init__, but for the configuration and the directory.
Constructed ==
    /\ redis_enabled = redis_client
    /\ memory_cache = EmptyMap
    /\ redis_store = EmptyMap
    /\ now = 0
    /\ pc = "idle"
    /\ request = None
    /\ cache_key = None
    /\ cache_backend = NoneStr
    /\ station_docs = NotSearched
    /\ chosen_stations = <<>>
    /\ tasks = <<>>
    /\ task_state = <<>>
    /\ keyword_results = <<>>
    /\ semaphore = 0
    /\ gather_exc = None
    /\ client_open = FALSE
    /\ response = None
    /\ result = NoResult
    /\ station_calls = 0
    /\ keyword_queries = <<>>
    /\ overtaken = FALSE
    /\ cache_lookups = 0
    /\ redis_calls = 0
    /\ enqueue_calls = 0
    /\ ingestion_jobs = 0
    /\ served = 0
    /\ last = NoLast

\* Instances with one keyword search at a time (the configuration of the
\* all-or-nothing test), with and without a shared cache and ingestion
\* enqueue, serving MaxRequests requests; the last keyword search may fail.
(***************************************************************************)
(* The worker's crawler (src/worker/crawlers/naver_place.py).              *)
(*                                                                         *)
(* A URL is a record: host, path, the query without its src parameter, the *)
(* fragment, the decoded src parameter (a URL, or None) and whether white  *)
(* space surrounds the text.  The blank URL has no host and no path.       *)
(***************************************************************************)
Url(host, path, query, fragment, src, padded) ==
    [host |-> host, path |-> path, query |-> query, fragment |-> fragment, src |-> src, padded |-> padded]

\* str.strip() of a URL.
StripUrl(url) == [url EXCEPT !.padded = FALSE]

\* The text of the URL is empty.
IsBlankUrl(url) ==
    url.host = "" /\ url.path = "" /\ url.query = "" /\ url.fragment = "" /\ url.src = None

\* A variant that keys a photo by its URL as written.
PhotoKeyAsWritten(url) == StripUrl(url)

\* A proxy URL with a src parameter is unwrapped to the decoded parameter;
\* any other URL loses its query and its fragment.
_photo_dedupe_key(url) ==
    LET parsed == StripUrl(url)
    IN IF parsed.host = "search.pstatic.net" /\ parsed.path = "/common/" /\ parsed.src # None
       THEN StripUrl(parsed.src)
       ELSE [parsed EXCEPT !.query = "", !.fragment = "", !.src = None]

_normalize_image_url(url) ==
    LET parsed == StripUrl(url)
    IN IF parsed.host = "search.pstatic.net" /\ parsed.path = "/common/" /\ parsed.src # None
       THEN StripUrl(parsed.src)
       ELSE [parsed EXCEPT !.query = "", !.fragment = "", !.src = None]

\* The keys of the photos kept so far.
PhotoKeys(deduped) == {deduped[i].dedupe_key : i \in 1..Len(deduped)}

\* The dict of _dedupe_photos, as the list of its values with their keys.
RECURSIVE DedupePhotoEntries(_, _)
DedupePhotoEntries(photos, deduped) ==
    IF photos = <<>> THEN deduped
    ELSE LET image_url_raw == StripUrl(Head(photos).image_url)
             image_url == _normalize_image_url(image_url_raw)
             dedupe_key == _photo_dedupe_key(image_url_raw)
         IN IF IsBlankUrl(image_url_raw) THEN DedupePhotoEntries(Tail(photos), deduped)
            ELSE IF IsBlankUrl(image_url) \/ IsBlankUrl(dedupe_key)
                    \/ dedupe_key \in PhotoKeys(deduped)
                 THEN DedupePhotoEntries(Tail(photos), deduped)
            ELSE DedupePhotoEntries(Tail(photos),
                     Append(deduped, [dedupe_key |-> dedupe_key, image_url |-> image_url]))

\* photo_id is a hash of image_url and is left out.
_dedupe_photos(photos) ==
    LET deduped == DedupePhotoEntries(photos, <<>>)
    IN [i \in 1..Len(deduped) |-> [image_url |-> deduped[i].image_url]]

\* A review: review_id is NoReviewId or an identifier; a review without one
\* is identified by the hash of content, author and posted_at, modelled by
\* the triple itself.
NoReviewId == [id |-> "", hash |-> <<>>]
Review(review_id, content, author, posted_at) ==
    [review_id |-> review_id, content |-> content, author |-> author, posted_at |-> posted_at]

_review_hash(content, author, posted_at) == <<content, author, posted_at>>

RECURSIVE _dedupe_reviews(_)
_dedupe_reviews(reviews) ==
    IF reviews = <<>> THEN <<>>
    ELSE LET before == _dedupe_reviews(SubSeq(reviews, 1, Len(reviews) - 1))
             review == reviews[Len(reviews)]
             review_id == IF review.review_id # NoReviewId THEN review.review_id
                          ELSE [id |-> "review-",
                                hash |-> _review_hash(review.content, review.author,
                                                      review.posted_at)]
         IN IF review.content = "" THEN before
            ELSE IF \E i \in 1..Len(before) : before[i].review_id = review_id THEN before
            ELSE Append(before, [review EXCEPT !.review_id = review_id])

\* _NoGrowthGuard.
\* A variant that keeps the limit and the baseline as given.
NoGrowthGuardAsGiven(limit, baseline) == [limit |-> limit, last_count |-> baseline, streak |-> 0]

NoGrowthGuard(limit, baseline) ==
    [ limit |-> IF limit < 1 THEN 1 ELSE limit,
      last_count |-> IF baseline < 0 THEN 0 ELSE baseline,
      streak |-> 0 ]

\* A variant of observe that stops one observation later.
ObserveStoppingLate(no_growth_guard, current_count) ==
    IF current_count > no_growth_guard.last_count
    THEN <<[no_growth_guard EXCEPT !.last_count = current_count, !.streak = 0], FALSE>>
    ELSE <<[no_growth_guard EXCEPT !.streak = @ + 1],
           no_growth_guard.streak + 1 > no_growth_guard.limit>>

\* observe: the guard after the observation, and what observe returns.
observe(no_growth_guard, current_count) ==
    IF current_count > no_growth_guard.last_count
    THEN <<[no_growth_guard EXCEPT !.last_count = current_count, !.streak = 0], FALSE>>
    ELSE <<[no_growth_guard EXCEPT !.streak = @ + 1],
           no_growth_guard.streak + 1 >= no_growth_guard.limit>>

(***************************************************************************)
(* crawl_naver_place_bundle: the mapping, the browser session, the reviews *)
(* channel (_crawl_reviews_with_page), then the photos channel             *)
(* (_crawl_photos_with_page).  A channel opens its page and extracts once, *)
(* then expands (a click on the "more" button, a scroll) and extracts      *)
(* again until the guard, the page or the ceiling stops it.                *)
(***************************************************************************)
\* _load_config: every value is at least 1.
CrawlerConfig(review_max_clicks, photo_max_scrolls, no_growth_limit) ==
    [review_max_clicks |-> review_max_clicks, photo_max_scrolls |-> photo_max_scrolls, no_growth_limit |-> no_growth_limit]

MaxExpansions == 3
MaxNoGrowthLimit == 2

CrawlConfigs ==
    { CrawlerConfig(c, c, n) : c \in {1, MaxExpansions}, n \in 1..MaxNoGrowthLimit }

\* What resolve_naver_place_mapping may hand to the crawl.
MappingResult(crawlable, naver_place_id, reason) ==
    [crawlable |-> crawlable, naver_place_id |-> naver_place_id, reason |-> reason]

MappingResults ==
    { MappingResult(TRUE, "np1", NoneStr),
      MappingResult(TRUE, NoneStr, NoneStr),
      MappingResult(FALSE, NoneStr, "no_candidates") }

\* What the page shows at one extraction; <<>> is also what _safe_extract
\* returns when the extraction raises.
ReviewR1 == Review([id |-> "r1", hash |-> <<>>], "good", "u1", "2025.01.01.")
ReviewR2 == Review(NoReviewId, "again", "u2", "2025.01.02.")
ReviewPages ==
    { <<>>, <<ReviewR1, ReviewR1>>, <<ReviewR1, ReviewR2, ReviewR2>>,
      <<Review(NoReviewId, "", "u3", "")>> }

DirectA400 == Url("example.com", "/a.jpg", "type=w400", "", None, FALSE)
DirectA800 == Url("example.com", "/a.jpg", "type=w800", "", None, FALSE)
DirectB    == Url("example.com", "/b.jpg", "", "", None, FALSE)
OriginAbc  == Url("ldb-phinf.pstatic.net", "/abc.jpg", "", "", None, FALSE)
ProxyF     == Url("search.pstatic.net", "/common/", "type=f", "", OriginAbc, FALSE)
ProxyG     == Url("search.pstatic.net", "/common/", "type=g", "", OriginAbc, FALSE)
Photo(image_url) == [image_url |-> image_url]
PhotoPages ==
    { <<>>, <<Photo(DirectA400)>>, <<Photo(DirectA400), Photo(DirectA800), Photo(DirectB)>>,
      <<Photo(ProxyF), Photo(ProxyG)>> }

Pages(channel_name) == IF channel_name = "reviews" THEN ReviewPages ELSE PhotoPages
Dedupe(channel_name, items) ==
    IF channel_name = "reviews" THEN _dedupe_reviews(items) ELSE _dedupe_photos(items)
Ceiling(channel_name) ==
    IF channel_name = "reviews" THEN crawl_config.review_max_clicks
    ELSE crawl_config.photo_max_scrolls

NoGuard == [limit |-> 0, last_count |-> 0, streak |-> 0]
NoCrawlResult ==
    [ mapping |-> None, status |-> NoneStr, skip_reason |-> NoneStr, reviews |-> <<>>,
      photos |-> <<>>, rating_summary |-> FALSE, warnings |-> <<>> ]

\* A BrowserSession: whether it was created and closed, the close functions
\* _close_browser_session called and the entries of its close_errors.
NoSession == [state |-> "none", close_calls |-> <<>>, close_errors |-> <<>>]
OpenSession == [state |-> "open", close_calls |-> <<>>, close_errors |-> <<>>]

\* The (close_name, close_fn) pairs of lines 954-959, in their order.
CloseSteps == <<"page", "context", "browser", "playwright">>

\* Which close functions raise at one teardown.
CloseFailures == { {}, {"page"}, {"context", "browser"}, {"page", "context", "browser", "playwright"} }

\* A variant whose loop ends at the first close function that raises.
RECURSIVE CloseUntilFailure(_, _, _)
CloseUntilFailure(open_session, steps, failing) ==
    IF steps = <<>> THEN [open_session EXCEPT !.state = "closed"]
    ELSE IF Head(steps) \in failing
    THEN [open_session EXCEPT !.state = "closed",
                              !.close_calls = Append(@, Head(steps)),
                              !.close_errors = Append(@, Head(steps))]
    ELSE CloseUntilFailure([open_session EXCEPT !.close_calls = Append(@, Head(steps))],
                           Tail(steps), failing)

\* The loop of lines 954-963: each close function is called inside its own
\* try block and a raise adds an entry to close_errors.
RECURSIVE CloseEach(_, _, _)
CloseEach(open_session, steps, failing) ==
    IF steps = <<>> THEN [open_session EXCEPT !.state = "closed"]
    ELSE CloseEach([open_session EXCEPT
                       !.close_calls = Append(@, Head(steps)),
                       !.close_errors = IF Head(steps) \in failing
                                        THEN Append(@, Head(steps)) ELSE @],
                   Tail(steps), failing)

\* Lines 949-966: nothing to do without a session.
_close_browser_session(open_session, failing) ==
    IF open_session = NoSession THEN open_session
    ELSE CloseEach(open_session, CloseSteps, failing)

\* No channel is running.
ChannelIdle ==
    /\ collected = <<>>
    /\ guard = NoGuard
    /\ click_index = 0
    /\ counts = <<>>
    /\ stop_reason = "none"

\* No crawl is under way.
CrawlIdle ==
    /\ crawl_config = CrawlerConfig(1, 1, 1)
    /\ crawl_pc = "idle"
    /\ channel = NoneStr
    /\ ChannelIdle
    /\ warnings = <<>>
    /\ crawl_result = NoCrawlResult
    /\ browser_session = NoSession
    /\ page_visits = <<>>

\* No place is being resolved.
MappingIdle ==
    /\ place_name = NoneStr
    /\ found = <<>>
    /\ mapping_pc = "idle"
    /\ mapping_payload = None
    /\ mapping_session = NoSession

\* No list of photos is being deduplicated.
DedupeIdle ==
    /\ photo_input = <<>>
    /\ photo_output = <<>>
    /\ dedupe_pc = "idle"

\* No batch is being ranked.
RankingIdle ==
    /\ session = "none"
    /\ feature_rows = EmptyMap
    /\ candidates = <<>>
    /\ rank_request = None
    /\ enriched = <<>>
    /\ ranked_hotplaces = <<>>
    /\ rank_pc = "idle"

\* The calls of create_ingestion_job_from_hotplaces the model follows.
MaxCalls == 2
Calls == 1..MaxCalls

NoOutcome == [kind |-> "none", job_id |-> NoneInt, error |-> NoneStr]

\* No ingestion job is being created.
IngestIdle ==
    /\ ingest_pc = [c \in Calls |-> "idle"]
    /\ ingest_hotplaces = [c \in Calls |-> None]
    /\ ingest_job_id = [c \in Calls |-> NoneInt]
    /\ ingest_outcome = [c \in Calls |-> NoOutcome]
    /\ job_table = <<>>
    /\ broker_queue = <<>>
    /\ next_job_id = 1

NoFrame ==
    [ pc |-> "idle", wrapper |-> NoneStr, present |-> <<>>, round |-> 0, attempt |-> 0,
      last_exc |-> NoneStr, raised |-> <<>>, outcome |-> NoneStr ]

\* No page action is being retried.
RetryIdle == retry_frame = NoFrame /\ action_log = <<>>

\* No ingestion job is being created and no page action retried.
WorkerIdle == IngestIdle /\ RetryIdle

NoLookup == [pc |-> "idle", kakao_place_id |-> NoneStr, documents |-> <<>>, best_doc |-> None]

NoFilterCall == [pc |-> "idle"]
NoRun == [pc |-> "idle"]

\* No document is being picked, the worker has stored no feature and runs
\* no job, and no enqueue is being decided.
StoreIdle ==
    /\ kakao_lookup = NoLookup
    /\ feature_table = <<>>
    /\ upsert_log = <<>>
    /\ recrawl_filter = NoFilterCall
    /\ ingest_run = NoRun

\* Nothing but get_midpoint_hotplaces is at work.
NotServiceIdle ==
    RankingIdle /\ CrawlIdle /\ DedupeIdle /\ MappingIdle /\ WorkerIdle /\ StoreIdle

Init ==
    /\ max_kakao_calls_per_request \in MaxCallsChoices
    /\ keyword_concurrency = 1
    /\ enable_ingestion_enqueue \in BOOLEAN
    /\ redis_client \in BOOLEAN
    /\ directory \in { Directory(<<>>, <<>>), Directory(DocsMixed, <<DocB, DocA>>) }
    /\ flaky = {NumKeywords}
    /\ Constructed
    /\ NotServiceIdle

(***************************************************************************)
(* The response cache (_get_cached_response, _set_cached_response).        *)
(* A payload is the response record itself: model_dump_json followed by    *)
(* model_validate_json gives back the fields it was given.                 *)
(***************************************************************************)
UsesRedis(enabled, client) == enabled /\ client

\* A variant that still serves an entry at the instant of its expiry.
UnexpiredAtExpiry(expires_at, clock) == ~(expires_at < clock)

\* An entry is served while the clock is before its expiry.
Unexpired(expires_at, clock) == ~(expires_at <= clock)

StoreGet(store, key, clock) ==
    IF key \in DOMAIN store /\ Unexpired(store[key][1], clock) THEN store[key][2] ELSE None

\* A variant that keeps the shared backend enabled after a failed lookup.
GetCachedResponseRetrying(key, redis_raises) ==
    IF UsesRedis(redis_enabled, redis_client) /\ ~redis_raises
    THEN [ response |-> StoreGet(redis_store, key, now), backend |-> "redis",
           redis_enabled |-> redis_enabled, memory_cache |-> memory_cache,
           redis_calls |-> redis_calls + 1 ]
    ELSE [ response |-> StoreGet(memory_cache, key, now), backend |-> "memory",
           redis_enabled |-> redis_enabled,
           memory_cache |-> IF key \in DOMAIN memory_cache
                               /\ ~Unexpired(memory_cache[key][1], now)
                            THEN Drop(memory_cache, key) ELSE memory_cache,
           redis_calls |-> IF UsesRedis(redis_enabled, redis_client)
                           THEN redis_calls + 1 ELSE redis_calls ]

\* _get_cached_response: the value returned and the state left behind.
\* redis_raises: the call to the shared backend raises.
_get_cached_response(key, redis_raises) ==
    IF UsesRedis(redis_enabled, redis_client) /\ ~redis_raises
    THEN [ response |-> StoreGet(redis_store, key, now), backend |-> "redis",
           redis_enabled |-> redis_enabled, memory_cache |-> memory_cache,
           redis_calls |-> redis_calls + 1 ]
    ELSE [ response |-> StoreGet(memory_cache, key, now), backend |-> "memory",
           redis_enabled |-> IF UsesRedis(redis_enabled, redis_client)
                             THEN FALSE ELSE redis_enabled,
           memory_cache |-> IF key \in DOMAIN memory_cache
                               /\ ~Unexpired(memory_cache[key][1], now)
                            THEN Drop(memory_cache, key) ELSE memory_cache,
           redis_calls |-> IF UsesRedis(redis_enabled, redis_client)
                           THEN redis_calls + 1 ELSE redis_calls ]

\* A variant that stores the entry without adding the time to live.
SetCachedResponseWithoutTtl(key, payload, redis_raises) ==
    IF UsesRedis(redis_enabled, redis_client) /\ ~redis_raises
    THEN [ backend |-> "redis", redis_enabled |-> redis_enabled,
           redis_store |-> Put(redis_store, key, <<now, payload>>),
           memory_cache |-> memory_cache, redis_calls |-> redis_calls + 1 ]
    ELSE [ backend |-> "memory",
           redis_enabled |-> IF UsesRedis(redis_enabled, redis_client)
                             THEN FALSE ELSE redis_enabled,
           redis_store |-> redis_store,
           memory_cache |-> Put(memory_cache, key, <<now, payload>>),
           redis_calls |-> IF UsesRedis(redis_enabled, redis_client)
                           THEN redis_calls + 1 ELSE redis_calls ]

\* _set_cached_response: the backend written and the state left behind.
_set_cached_response(key, payload, redis_raises) ==
    IF UsesRedis(redis_enabled, redis_client) /\ ~redis_raises
    THEN [ backend |-> "redis", redis_enabled |-> redis_enabled,
           redis_store |-> Put(redis_store, key, <<now + CacheTtl, payload>>),
           memory_cache |-> memory_cache, redis_calls |-> redis_calls + 1 ]
    ELSE [ backend |-> "memory",
           redis_enabled |-> IF UsesRedis(redis_enabled, redis_client)
                             THEN FALSE ELSE redis_enabled,
           redis_store |-> redis_store,
           memory_cache |-> Put(memory_cache, key, <<now + CacheTtl, payload>>),
           redis_calls |-> IF UsesRedis(redis_enabled, redis_client)
                           THEN redis_calls + 1 ELSE redis_calls ]

(***************************************************************************)
(* get_midpoint_hotplaces.                                                 *)
(***************************************************************************)
applied_keywords == [i \in 1..NumKeywords |-> i]
\* A variant that applies the station limit the request asks for.
RequestedStationLimit ==
    IF request = None THEN FIXED_STATION_LIMIT ELSE request.station_limit

applied_station_limit == FIXED_STATION_LIMIT
applied_pages == FIXED_PAGES

expected_kakao_calls ==
    _calculate_expected_kakao_calls(applied_station_limit, Len(applied_keywords),
                                    applied_pages)

\* The guard of line 1295.
ExceedsGuard(expected, limit) == expected > limit

\* No feature store is attached (session is None): the list is returned as
\* it is.
_attach_hotplace_features(hotplaces) == hotplaces

Meta(req, stations, hotplaces, keyword_request_count, executed_keyword_count, actual_kakao_calls, hit, backend) ==
    [ participant_count |-> Len(req.participants),
      station_radius |-> req.station_radius,
      station_limit |-> applied_station_limit,
      place_radius |-> req.place_radius,
      keywords |-> applied_keywords,
      size |-> req.size,
      pages |-> applied_pages,
      station_count |-> Len(stations),
      hotplace_count |-> Len(hotplaces),
      keyword_request_count |-> keyword_request_count,
      kakao_api_call_count |-> actual_kakao_calls,
      executed_keyword_count |-> executed_keyword_count,
      expected_kakao_api_call_count |-> expected_kakao_calls,
      actual_kakao_api_call_count |-> actual_kakao_calls,
      ranking_weather_key |-> _normalize_weather_key(req.weather_key),
      cache_hit |-> hit,
      cache_backend |-> backend,
      cache_ttl_seconds |-> CacheTtl ]

\* A variant that marks the cached response as a hit and keeps its counts.
HitResponseKeepingCounts(cached, req, backend) ==
    [ cached EXCEPT !.meta.cache_hit = TRUE, !.meta.cache_backend = backend ]

\* The response of a cache hit (lines 1307-1336): the cached response with
\* its meta updated and its hotplaces ranked again for this request.
HitResponse(cached, req, backend) ==
    [ cached EXCEPT
        !.meta = [ cached.meta EXCEPT
                     !.participant_count = Len(req.participants),
                     !.station_radius = req.station_radius,
                     !.station_limit = applied_station_limit,
                     !.place_radius = req.place_radius,
                     !.keywords = applied_keywords,
                     !.pages = applied_pages,
                     !.cache_hit = TRUE,
                     !.cache_backend = backend,
                     !.cache_ttl_seconds = CacheTtl,
                     !.executed_keyword_count = 0,
                     !.expected_kakao_api_call_count = expected_kakao_calls,
                     !.actual_kakao_api_call_count = 0,
                     !.kakao_api_call_count = 0,
                     !.ranking_weather_key = _normalize_weather_key(req.weather_key) ],
        !.hotplaces = _rank_hotplaces(_attach_hotplace_features(cached.hotplaces), req) ]

\* How get_midpoint_hotplaces ended: it returned the response, or raised an
\* HTTPException (policy: the detail names the all-or-nothing policy).
Returned == [kind |-> "returned", status_code |-> NoneInt, policy |-> FALSE, cause |-> None]
Raised(status_code, policy, cause) ==
    [kind |-> "raised", status_code |-> status_code, policy |-> policy, cause |-> cause]

\* A variant that answers every failure of the fan-out with 502.
FanoutFailureAlways502(exc) == Raised(HTTP_502_BAD_GATEWAY, TRUE, exc)

\* What get_midpoint_hotplaces raises when gather raised exc (lines
\* 1440-1461): the status of an HTTPException, 502 for anything else, and
\* the all-or-nothing policy in the detail.
FanoutFailure(exc) ==
    IF exc.http THEN Raised(exc.status_code, TRUE, exc)
    ELSE Raised(HTTP_502_BAD_GATEWAY, TRUE, exc)

\* A variant without the try/except around the enqueue.
AfterEnqueuePropagating(enqueue_raises) ==
    IF enqueue_raises THEN Raised(NoneInt, FALSE, None) ELSE Returned

\* How get_midpoint_hotplaces ends after _maybe_enqueue_ingestion_job: the
\* try/except of lines 1204-1224 keeps a failure of the enqueue inside.
AfterEnqueue(enqueue_raises) == Returned

\* Entry of get_midpoint_hotplaces up to the guard (lines 1286-1305).
StartRequest(req) ==
    /\ pc = "idle"
    /\ served < MaxRequests
    /\ request' = req
    /\ station_calls' = 0
    /\ keyword_queries' = <<>>
    /\ overtaken' = FALSE
    /\ cache_lookups' = 0
    /\ enqueue_calls' = 0
    /\ ingestion_jobs' = 0
    /\ redis_calls' = 0
    /\ response' = None
    /\ IF ExceedsGuard(expected_kakao_calls, max_kakao_calls_per_request)
       THEN /\ result' = Raised(HTTP_400_BAD_REQUEST, FALSE, None)
            /\ pc' = "done"
            /\ cache_key' = None
       ELSE /\ result' = NoResult
            /\ pc' = "lookup"
            /\ cache_key' = _build_cache_key(req)
    /\ UNCHANGED <<config_vars, redis_enabled, memory_cache, redis_store, tasks,
                   task_state, keyword_results, semaphore, gather_exc, client_open,
                   now, cache_backend, station_docs, chosen_stations, served, last>>
    /\ UNCHANGED not_service

\* The cache lookup and, on a hit, the return (lines 1306-1336).
CacheLookup(redis_raises) ==
    /\ pc = "lookup"
    /\ LET got == _get_cached_response(cache_key, redis_raises) IN
       /\ redis_enabled' = got.redis_enabled
       /\ memory_cache' = got.memory_cache
       /\ redis_calls' = got.redis_calls
       /\ cache_backend' = got.backend
       /\ cache_lookups' = cache_lookups + 1
       /\ IF got.response # None
          THEN /\ response' = HitResponse(got.response, request, got.backend)
               /\ result' = Returned
               /\ pc' = "done"
          ELSE /\ pc' = "stations"
               /\ UNCHANGED <<response, result>>
    /\ UNCHANGED <<config_vars, redis_store, fanout_vars, now, request, cache_key,
                   station_docs, chosen_stations, station_calls, enqueue_calls, ingestion_jobs,
                   served, last>>
    /\ UNCHANGED not_service

EmptyResponse(req, backend, actual_kakao_calls) ==
    [ chosen_stations |-> <<>>,
      hotplaces |-> <<>>,
      meta |-> Meta(req, <<>>, <<>>, 0, 0, actual_kakao_calls, FALSE, backend) ]

\* The station search raises (line 1368): the exception leaves
\* get_midpoint_hotplaces as it is.
StationSearchFails(exc) ==
    /\ pc = "stations"
    /\ station_calls' = station_calls + 1
    /\ result' = Raised(exc.status_code, FALSE, exc)
    /\ pc' = "done"
    /\ UNCHANGED <<config_vars, cache_vars, fanout_vars, now, request, cache_key,
                   cache_backend, station_docs, chosen_stations, response, cache_lookups,
                   enqueue_calls, ingestion_jobs, served, last>>
    /\ UNCHANGED not_service

\* The station search answers (lines 1364-1437): with no usable station the
\* empty response is returned; otherwise the fan-out's tasks are created.
StationSearch(documents) ==
    /\ pc = "stations"
    /\ station_calls' = station_calls + 1
    /\ station_docs' = [answered |-> TRUE, documents |-> documents]
    /\ chosen_stations' = ChosenStations(documents, applied_station_limit)
    /\ IF chosen_stations' = <<>>
       THEN /\ response' = EmptyResponse(request, cache_backend, 1)
            /\ result' = Returned
            /\ pc' = "done"
            /\ UNCHANGED fanout_vars
       ELSE /\ tasks' = CrossTasks(chosen_stations', applied_keywords, applied_pages)
            /\ task_state' = [i \in 1..Len(tasks') |-> "waiting"]
            /\ keyword_results' = [i \in 1..Len(tasks') |-> <<>>]
            /\ semaphore' = keyword_concurrency
            /\ gather_exc' = None
            /\ client_open' = TRUE
            /\ keyword_queries' = <<>>
            /\ overtaken' = FALSE
            /\ pc' = "gather"
            /\ UNCHANGED <<response, result>>
    /\ UNCHANGED <<config_vars, cache_vars, now, request, cache_key, cache_backend,
                   cache_lookups, enqueue_calls, ingestion_jobs, served, last>>
    /\ UNCHANGED not_service

(***************************************************************************)
(* The keyword fan-out (_fetch_keyword_page under asyncio.gather).  Tasks  *)
(* take the semaphore in the order they were created.  gather hands the    *)
(* first exception to get_midpoint_hotplaces and cancels nothing: the      *)
(* other tasks go on after get_midpoint_hotplaces has raised.              *)
(***************************************************************************)
Waiting == {i \in 1..Len(tasks) : task_state[i] = "waiting"}
InFlight == {i \in 1..Len(tasks) : task_state[i] = "inflight"}
Settled == \A i \in 1..Len(tasks) : task_state[i] \in {"done", "failed"}

NextWaiting == CHOOSE i \in Waiting : \A j \in Waiting : i <= j

\* The next waiting task takes a permit and calls search_places_by_keyword.
\* On a closed client the call raises at once and the permit is given back.
IssueKeywordCall ==
    /\ Waiting # {}
    /\ semaphore > 0
    /\ LET i == NextWaiting IN
       IF client_open
       THEN /\ task_state' = [task_state EXCEPT ![i] = "inflight"]
            /\ semaphore' = semaphore - 1
            /\ keyword_queries' = Append(keyword_queries, tasks[i].keyword)
       ELSE /\ task_state' = [task_state EXCEPT ![i] = "failed"]
            /\ UNCHANGED <<semaphore, keyword_queries>>
    /\ UNCHANGED <<config_vars, cache_vars, tasks, keyword_results, gather_exc,
                   client_open, overtaken, now, pc, request, cache_key, cache_backend,
                   station_docs, chosen_stations, response, result, station_calls, cache_lookups,
                   enqueue_calls, ingestion_jobs, served, last>>
    /\ UNCHANGED not_service

\* A call in flight answers: the task returns <<station_name, keyword,
\* documents>> and gives its permit back; gather keeps the result at the
\* position of the task (line 1439).  overtaken: a call that was created
\* earlier was still in flight.
CompleteKeywordCall(i) ==
    /\ i \in InFlight
    /\ task_state' = [task_state EXCEPT ![i] = "done"]
    /\ keyword_results' = [keyword_results EXCEPT ![i] =
           <<tasks[i].station.station_name, tasks[i].keyword,
             directory[tasks[i].keyword]>>]
    /\ semaphore' = semaphore + 1
    /\ overtaken' = (overtaken \/ \E j \in InFlight : j < i)
    /\ UNCHANGED <<config_vars, cache_vars, tasks, gather_exc, client_open,
                   keyword_queries, now, pc, request, cache_key, cache_backend,
                   station_docs, chosen_stations, response, result, station_calls, cache_lookups,
                   enqueue_calls, ingestion_jobs, served, last>>
    /\ UNCHANGED not_service

\* A call in flight raises: the task re-raises and gives its permit back;
\* gather keeps the first exception.
FailKeywordCall(i, exc) ==
    /\ i \in InFlight
    /\ tasks[i].keyword \in flaky
    /\ task_state' = [task_state EXCEPT ![i] = "failed"]
    /\ semaphore' = semaphore + 1
    /\ gather_exc' = IF gather_exc = None THEN [exc EXCEPT !.task = i] ELSE gather_exc
    /\ UNCHANGED <<config_vars, cache_vars, tasks, keyword_results, client_open,
                   keyword_queries, overtaken, now, pc, request, cache_key, cache_backend,
                   station_docs, chosen_stations, response, result, station_calls, cache_lookups,
                   enqueue_calls, ingestion_jobs, served, last>>
    /\ UNCHANGED not_service

\* gather raised (lines 1440-1461): the client is closed on the way out and
\* the request fails as a whole.
\* A variant that keeps what it has for the next request.
GatherRaisesStoringPartial ==
    /\ pc = "gather"
    /\ gather_exc # None
    /\ client_open' = FALSE
    /\ result' = FanoutFailure(gather_exc)
    /\ pc' = "done"
    /\ memory_cache' = Put(memory_cache, cache_key,
                           <<now + CacheTtl, EmptyResponse(request, "memory", 1)>>)
    /\ UNCHANGED <<config_vars, redis_enabled, redis_store, redis_calls, tasks, task_state,
                   keyword_results, semaphore, gather_exc, keyword_queries, overtaken, now, request,
                   cache_key, cache_backend, station_docs, chosen_stations, response,
                   station_calls, cache_lookups, enqueue_calls, ingestion_jobs, served, last>>
    /\ UNCHANGED not_service

\* gather raised (lines 1440-1461): the client is closed and the failure
\* leaves get_midpoint_hotplaces.
GatherRaises ==
    /\ pc = "gather"
    /\ gather_exc # None
    /\ client_open' = FALSE
    /\ result' = FanoutFailure(gather_exc)
    /\ pc' = "done"
    /\ UNCHANGED <<config_vars, cache_vars, tasks, task_state, keyword_results,
                   semaphore, gather_exc, keyword_queries, overtaken, now, request, cache_key,
                   cache_backend, station_docs, chosen_stations, response, station_calls,
                   cache_lookups, enqueue_calls, ingestion_jobs, served, last>>
    /\ UNCHANGED not_service

\* gather returned every result (lines 1462-1538): de-duplicate, attach,
\* rank and build the response.
Aggregate ==
    /\ pc = "gather"
    /\ \A i \in 1..Len(tasks) : task_state[i] = "done"
    /\ client_open' = FALSE
    /\ LET actual_kakao_calls == 1 + Len(tasks)
           hotplaces == _rank_hotplaces(
               _attach_hotplace_features(deduped_hotplaces(keyword_results)), request)
       IN response' =
            [ chosen_stations |-> chosen_stations,
              hotplaces |-> hotplaces,
              meta |-> Meta(request, chosen_stations, hotplaces, Len(tasks),
                            Len(applied_keywords), actual_kakao_calls, FALSE,
                            cache_backend) ]
    /\ pc' = "cache_write"
    /\ UNCHANGED <<config_vars, cache_vars, tasks, task_state, keyword_results,
                   semaphore, gather_exc, keyword_queries, overtaken, now, request, cache_key,
                   cache_backend, station_docs, chosen_stations, result, station_calls,
                   cache_lookups, enqueue_calls, ingestion_jobs, served, last>>
    /\ UNCHANGED not_service

\* The cache write (lines 1540-1541).
WriteCache(redis_raises) ==
    /\ pc = "cache_write"
    /\ LET put == _set_cached_response(cache_key, response, redis_raises) IN
       /\ redis_enabled' = put.redis_enabled
       /\ redis_store' = put.redis_store
       /\ memory_cache' = put.memory_cache
       /\ redis_calls' = put.redis_calls
       /\ cache_backend' = put.backend
       /\ response' = [response EXCEPT !.meta.cache_backend = put.backend]
    /\ pc' = "enqueue"
    /\ UNCHANGED <<config_vars, fanout_vars, now, request, cache_key,
                   station_docs, chosen_stations, result, station_calls, cache_lookups,
                   enqueue_calls, ingestion_jobs, served, last>>
    /\ UNCHANGED not_service

\* _maybe_enqueue_ingestion_job attempts the enqueue (no session: no
\* cooldown filter).
AttemptsEnqueue(enabled, hotplaces) == enabled /\ hotplaces # <<>>

\* _maybe_enqueue_ingestion_job and the return (lines 1542-1548).
\* enqueue_raises: create_ingestion_job_from_hotplaces raises.
Enqueue(enqueue_raises) ==
    /\ pc = "enqueue"
    /\ IF AttemptsEnqueue(enable_ingestion_enqueue, response.hotplaces)
       THEN /\ enqueue_calls' = enqueue_calls + 1
            /\ ingestion_jobs' = IF enqueue_raises THEN ingestion_jobs
                                 ELSE ingestion_jobs + 1
       ELSE UNCHANGED <<enqueue_calls, ingestion_jobs>>
    /\ result' = IF AttemptsEnqueue(enable_ingestion_enqueue, response.hotplaces)
                 THEN AfterEnqueue(enqueue_raises) ELSE Returned
    /\ pc' = "done"
    /\ UNCHANGED <<config_vars, cache_vars, fanout_vars, now, request, cache_key,
                   cache_backend, station_docs, chosen_stations, response, station_calls,
                   cache_lookups, served, last>>
    /\ UNCHANGED not_service

\* What the finished request was.
OutcomeKind ==
    IF result.kind = "raised"
    THEN (IF cache_lookups = 0 THEN "blocked" ELSE "failed")
    ELSE IF response.meta.cache_hit THEN "hit"
    ELSE IF response.meta.station_count = 0 THEN "empty"
    ELSE "miss"

\* The caller has its answer and every task of the fan-out has ended: the
\* instance is ready for the next request.
Finish ==
    /\ pc = "done"
    /\ Settled
    /\ pc' = "idle"
    /\ served' = served + 1
    /\ last' = [ request |-> request, cache_key |-> cache_key,
                 kind |-> OutcomeKind, at |-> now,
                 stored_in |-> IF OutcomeKind = "miss"
                               THEN response.meta.cache_backend ELSE NoneStr ]
    /\ tasks' = <<>>
    /\ task_state' = <<>>
    /\ keyword_results' = <<>>
    /\ semaphore' = 0
    /\ gather_exc' = None
    /\ station_docs' = NotSearched
    /\ chosen_stations' = <<>>
    /\ client_open' = FALSE
    /\ keyword_queries' = <<>>
    /\ overtaken' = FALSE
    /\ request' = None
    /\ cache_key' = None
    /\ cache_backend' = NoneStr
    /\ response' = None
    /\ result' = NoResult
    /\ station_calls' = 0
    /\ cache_lookups' = 0
    /\ enqueue_calls' = 0
    /\ ingestion_jobs' = 0
    /\ redis_calls' = 0
    /\ UNCHANGED <<config_vars, redis_enabled, memory_cache, redis_store, now>>
    /\ UNCHANGED not_service

\* Time passes between requests (the clock starts with the first one).
Tick ==
    /\ pc = "idle"
    /\ served > 0
    /\ now < MaxTime
    /\ now' = now + 1
    /\ UNCHANGED <<config_vars, cache_vars, fanout_vars, pc, request, cache_key,
                   cache_backend, station_docs, chosen_stations, response, result, station_calls,
                   cache_lookups, enqueue_calls, ingestion_jobs, served, last>>
    /\ UNCHANGED not_service

Next ==
    \/ \E req \in Requests : StartRequest(req)
    \/ \E redis_raises \in BOOLEAN : CacheLookup(redis_raises)
    \/ \E exc \in DirectoryErrors : StationSearchFails(exc)
    \/ \E documents \in StationDocChoices : StationSearch(documents)
    \/ IssueKeywordCall
    \/ \E i \in InFlight : CompleteKeywordCall(i)
    \/ \E i \in InFlight, exc \in DirectoryErrors : FailKeywordCall(i, exc)
    \/ GatherRaises
    \/ Aggregate
    \/ \E redis_raises \in BOOLEAN : WriteCache(redis_raises)
    \/ \E enqueue_raises \in BOOLEAN : Enqueue(enqueue_raises)
    \/ Finish
    \/ Tick

Spec == Init /\ [][Next]_vars

(***************************************************************************)
(* The cache key as a function of the request: an instance without shared  *)
(* cache whose directory knows no station serves two requests drawn from   *)
(* KeyRequests, so that the keys of any two of them meet in one state      *)
(* (last.cache_key and cache_key).                                         *)
(***************************************************************************)
\* BaseRequest with its participants replaced.
WithParticipants(participants) == [BaseRequest EXCEPT !.participants = participants]

KeyRequests ==
    { BaseRequest,
      \* the participants in the other order
      WithParticipants(<< <<3750000, 12750000>>, <<3700000, 12700000>> >>),
      \* coordinates that differ beyond the fourth decimal only
      WithParticipants(<< <<3700004, 12699996>>, <<3750000, 12750000>> >>),
      \* a coordinate that differs in the fourth decimal
      WithParticipants(<< <<3700010, 12700000>>, <<3750000, 12750000>> >>),
      \* other overridden fields
      [BaseRequest EXCEPT !.station_limit = 2, !.pages = 2, !.keywords = "default"],
      \* other radii and size
      [BaseRequest EXCEPT !.station_radius = 1500],
      [BaseRequest EXCEPT !.place_radius = 500],
      [BaseRequest EXCEPT !.size = 10],
      \* weather keys: a missing and a blank key, a key, its alias and the key
      \* in white space, an unsupported key and the default key
      [BaseRequest EXCEPT !.weather_key = "  "],
      [BaseRequest EXCEPT !.weather_key = "rain"],
      [BaseRequest EXCEPT !.weather_key = "shower"],
      [BaseRequest EXCEPT !.weather_key = " rain "],
      [BaseRequest EXCEPT !.weather_key = "fog"],
      [BaseRequest EXCEPT !.weather_key = "default"],
      [BaseRequest EXCEPT !.weather_key = "clear"],
      \* a participant just north and just south of the equator
      WithParticipants(<< <<1, 12700000>>, <<3750000, 12750000>> >>),
      WithParticipants(<< <<0 - 1, 12700000>>, <<3750000, 12750000>> >>) }

InitCacheKey ==
    /\ max_kakao_calls_per_request = 1 + NumKeywords
    /\ keyword_concurrency = 1
    /\ enable_ingestion_enqueue = FALSE
    /\ redis_client = FALSE
    /\ directory = Directory(<<>>, <<>>)
    /\ flaky = {}
    /\ Constructed
    /\ NotServiceIdle

NextCacheKey ==
    \/ \E req \in KeyRequests : StartRequest(req)
    \/ CacheLookup(FALSE)
    \/ StationSearch(<<>>)
    \/ Finish

SpecCacheKey == InitCacheKey /\ [][NextCacheKey]_vars

(***************************************************************************)
(* The keyword fan-out under a semaphore wider than one.  __init__ reads   *)
(* MIDPOINT_KEYWORD_CONCURRENCY with _get_int_env (lines 256-258,          *)
(* 291-300); keyword 2 may fail, early enough for calls to be waiting for  *)
(* a permit when it does.                                                  *)
(***************************************************************************)
\* int(raw_value) on the values of the model; "abc" raises ValueError.
IntOfEnv(raw_value) ==
    CASE raw_value = "-3" -> 0 - 3
      [] raw_value = "0" -> 0
      [] raw_value = "1" -> 1
      [] raw_value = "2" -> 2
      [] OTHER -> NoneInt

\* A variant without the floor.
GetIntEnvUnclamped(raw_value, default, minimum) ==
    IF raw_value = NoneStr \/ raw_value = "abc" THEN default ELSE IntOfEnv(raw_value)

_get_int_env(raw_value, default, minimum) ==
    IF raw_value = NoneStr THEN default
    ELSE IF raw_value = "abc" THEN default
    ELSE IF IntOfEnv(raw_value) < minimum THEN minimum ELSE IntOfEnv(raw_value)

DEFAULT_KEYWORD_CONCURRENCY == 8

\* The values of MIDPOINT_KEYWORD_CONCURRENCY the fan-out is followed under.
FanoutEnvValues == {"-3", "0", "1", "2"}

InitFanout ==
    /\ max_kakao_calls_per_request = 1 + NumKeywords
    /\ \E raw_value \in FanoutEnvValues :
          keyword_concurrency = _get_int_env(raw_value, DEFAULT_KEYWORD_CONCURRENCY, 1)
    /\ enable_ingestion_enqueue = FALSE
    /\ redis_client = FALSE
    /\ directory = Directory(DocsMixed, <<DocB, DocA>>)
    /\ flaky = {2}
    /\ Constructed
    /\ NotServiceIdle

NextFanout ==
    \/ StartRequest(BaseRequest)
    \/ CacheLookup(FALSE)
    \/ StationSearch(<<StationDoc(7, "Gangnam-yeok")>>)
    \/ IssueKeywordCall
    \/ \E i \in InFlight : CompleteKeywordCall(i)
    \/ \E i \in InFlight, exc \in DirectoryErrors : FailKeywordCall(i, exc)
    \/ GatherRaises
    \/ Aggregate
    \/ WriteCache(FALSE)
    \/ Enqueue(FALSE)
    \/ Finish

SpecFanout == InitFanout /\ [][NextFanout]_vars

(***************************************************************************)
(* The fan-out of a request whose searches all answer, with up to          *)
(* MaxWidth calls in flight.  The first two keywords and the last one      *)
(* return documents with the same ids.                                     *)
(***************************************************************************)
MaxWidth == 2

DocC == PlaceDoc(55, "C", 0, 0, 300)
OverlappingDirectory ==
    [k \in PREDEFINED_PLAY_KEYWORDS |->
        IF k = 1 THEN <<DocA, DocB>>
        ELSE IF k = 2 THEN <<DocB, [DocA EXCEPT !.place_name = "A2"], DocC>>
        ELSE IF k = NumKeywords THEN <<[DocC EXCEPT !.place_name = "C2"], DocA>>
        ELSE <<>>]

InitOrder ==
    /\ max_kakao_calls_per_request = 1 + NumKeywords
    /\ keyword_concurrency \in 1..MaxWidth
    /\ enable_ingestion_enqueue = FALSE
    /\ redis_client = FALSE
    /\ directory = OverlappingDirectory
    /\ flaky = {}
    /\ Constructed
    /\ NotServiceIdle

NextOrder ==
    \/ StartRequest(BaseRequest)
    \/ CacheLookup(FALSE)
    \/ StationSearch(<<StationDoc(7, "Gangnam-yeok")>>)
    \/ IssueKeywordCall
    \/ \E i \in InFlight : CompleteKeywordCall(i)
    \/ Aggregate
    \/ WriteCache(FALSE)
    \/ Enqueue(FALSE)
    \/ Finish

SpecOrder == InitOrder /\ [][NextOrder]_vars

(***************************************************************************)
(* Feature attachment and ranking of one batch of hotplaces                *)
(* (_attach_hotplace_features followed by _rank_hotplaces, as              *)
(* get_midpoint_hotplaces calls them).  A row of place_ingestion_feature   *)
(* is its feature_payload: naver_mapping.reason, naver_crawl.status,       *)
(* naver_crawl.skip_reason, whether latest_photo_sample holds a photo,     *)
(* and naver_rating_summary.                                               *)
(***************************************************************************)
HIDE_HOTPLACE_MAPPING_REASONS == {"no_candidates", "low_confidence"}
PHOTO_COLLECTION_FAILURE_REASONS ==
    {"missing_place_name", "no_candidates", "low_confidence", "search_error",
     "missing_naver_place_id", "crawler_error", "naver_target_unavailable"}

\* str(value or "").strip().lower() or None, on the reasons of the model:
\* " Low_Confidence " is the one written with capitals and white space.
_normalize_reason(value) ==
    CASE value = NoneStr -> NoneStr
      [] value = "" -> NoneStr
      [] value = " Low_Confidence " -> "low_confidence"
      [] OTHER -> value

\* None unless 0 <= value <= 5; a rating is in hundredths.
_to_optional_rating(value) ==
    IF value = NoneInt THEN NoneInt
    ELSE IF value < 0 \/ value > 500 THEN NoneInt
    ELSE value

_to_optional_positive_int(value) ==
    IF value = NoneInt THEN NoneInt
    ELSE IF value <= 0 THEN NoneInt
    ELSE value

FeaturePayload(mapping_reason, crawl_status, skip_reason, has_photo, average_rating, rating_count) ==
    [ mapping_reason |-> mapping_reason, crawl_status |-> crawl_status,
      skip_reason |-> skip_reason, has_photo |-> has_photo,
      average_rating |-> average_rating, rating_count |-> rating_count ]

_extract_mapping_reason_from_feature_payload(feature_payload) ==
    _normalize_reason(feature_payload.mapping_reason)

\* The reason half of the result; no row of the model carries warnings.
_extract_photo_collection_status_from_feature_payload(feature_payload) ==
    LET skip_reason == _normalize_reason(feature_payload.skip_reason)
        reason == IF skip_reason # NoneStr THEN skip_reason
                  ELSE _normalize_reason(feature_payload.mapping_reason)
    IN IF feature_payload.has_photo THEN NoneStr
       ELSE IF feature_payload.crawl_status \in {"FAILED", "SKIPPED"}
            THEN (IF reason # NoneStr THEN reason ELSE "crawl_skipped")
       ELSE IF reason \in PHOTO_COLLECTION_FAILURE_REASONS THEN reason
       ELSE NoneStr

\* feature_map.get(kakao_place_id, {}) of a place without a row.
NoFeature ==
    [ naver_rating |-> NoneInt, naver_rating_count |-> NoneInt,
      mapping_issue_reason |-> NoneStr, photo_collection_reason |-> NoneStr ]

\* The feature map of the rows asked for: empty without a session and when
\* the query raises.
_fetch_hotplace_feature_map(db_session, rows, kakao_place_ids) ==
    IF db_session \in {"none", "fails"} \/ kakao_place_ids = {} THEN EmptyMap
    ELSE [ id \in (DOMAIN rows) \cap kakao_place_ids |->
             [ naver_rating |-> _to_optional_rating(rows[id].average_rating),
               naver_rating_count |-> _to_optional_positive_int(rows[id].rating_count),
               mapping_issue_reason |-> _extract_mapping_reason_from_feature_payload(rows[id]),
               photo_collection_reason |->
                   _extract_photo_collection_status_from_feature_payload(rows[id]) ] ]

\* A variant that hides on any mapping reason.
ShouldHideOnAnyMappingReason(feature) ==
    \/ _normalize_reason(feature.mapping_issue_reason) # NoneStr
    \/ _normalize_reason(feature.photo_collection_reason) \in HIDE_HOTPLACE_MAPPING_REASONS

_should_hide_hotplace_for_mapping_issue(feature) ==
    \/ _normalize_reason(feature.mapping_issue_reason) \in HIDE_HOTPLACE_MAPPING_REASONS
    \/ _normalize_reason(feature.photo_collection_reason) \in HIDE_HOTPLACE_MAPPING_REASONS

FeatureOf(feature_map, kakao_place_id) ==
    IF kakao_place_id \in DOMAIN feature_map THEN feature_map[kakao_place_id]
    ELSE NoFeature

RECURSIVE EnrichHotplaces(_, _)
EnrichHotplaces(hotplaces, feature_map) ==
    IF hotplaces = <<>> THEN <<>>
    ELSE LET hotplace == Head(hotplaces)
             feature == FeatureOf(feature_map, hotplace.kakao_place_id)
             naver_rating == _to_optional_rating(feature.naver_rating)
             naver_rating_count == _to_optional_positive_int(feature.naver_rating_count)
         IN (IF _should_hide_hotplace_for_mapping_issue(feature) THEN <<>>
             ELSE << [hotplace EXCEPT
                        !.naver_rating = IF naver_rating # NoneInt THEN naver_rating ELSE @,
                        !.naver_rating_count =
                            IF naver_rating_count # NoneInt THEN naver_rating_count ELSE @] >>)
            \o EnrichHotplaces(Tail(hotplaces), feature_map)

\* _attach_hotplace_features with the session given to the handler.
AttachWithSession(hotplaces, db_session, rows) ==
    IF hotplaces = <<>> THEN hotplaces
    ELSE LET kakao_place_ids == {hotplaces[i].kakao_place_id : i \in 1..Len(hotplaces)}
             feature_map == _fetch_hotplace_feature_map(db_session, rows, kakao_place_ids)
         IN IF DOMAIN feature_map = {} THEN hotplaces
            ELSE EnrichHotplaces(hotplaces, feature_map)

\* A hotplace of a batch: every one lies where DocA lies and was found by
\* the first keyword, so that two of them differ only in what is listed.
RankedInput(kakao_place_id, distance, naver_rating, naver_rating_count) ==
    [ _build_hotplace(PlaceDoc(kakao_place_id, "P", DocA.x, DocA.y, distance), "Gangnam", 1)
        EXCEPT !.naver_rating = naver_rating, !.naver_rating_count = naver_rating_count ]

\* Identifiers have two digits: their order as strings is their order as
\* numbers.
HotplacePool ==
    { RankedInput(11, 100, 490, 5),
      RankedInput(22, 100, 420, 2000),
      RankedInput(33, 100, 0, 120),
      RankedInput(44, 100, 410, 40),
      RankedInput(55, 300, NoneInt, NoneInt),
      RankedInput(66, 200, NoneInt, NoneInt),
      RankedInput(77, NoneInt, NoneInt, NoneInt),
      RankedInput(88, 200, NoneInt, NoneInt),
      RankedInput(99, 100, 420, 3000) }

MaxBatch == 3

\* The batches: up to MaxBatch hotplaces of the pool, no identifier twice
\* (deduped_hotplaces has run), in any order.
Batches ==
    UNION { { b \in [1..n -> HotplacePool] :
                \A i, j \in 1..n : i # j => b[i].kakao_place_id # b[j].kakao_place_id }
            : n \in 1..MaxBatch }

NoRows == EmptyMap
RowsHiding ==
    [ id \in {11, 33, 55, 66} |->
        CASE id = 11 -> FeaturePayload("low_confidence", "", NoneStr, FALSE, NoneInt, NoneInt)
          [] id = 33 -> FeaturePayload(NoneStr, "SKIPPED", "no_candidates", FALSE, NoneInt, NoneInt)
          [] id = 55 -> FeaturePayload("search_error", "SKIPPED", NoneStr, FALSE, NoneInt, NoneInt)
          [] id = 66 -> FeaturePayload(NoneStr, "SUCCESS", NoneStr, TRUE, 450, 40) ]
RowsMixed ==
    [ id \in {22, 44, 77, 88} |->
        CASE id = 22 -> FeaturePayload(" Low_Confidence ", "", NoneStr, TRUE, 420, 2000)
          [] id = 44 -> FeaturePayload(NoneStr, "SUCCESS", "no_candidates", TRUE, 510, 0)
          [] id = 77 -> FeaturePayload(NoneStr, "FAILED", NoneStr, FALSE, NoneInt, NoneInt)
          [] id = 88 -> FeaturePayload(NoneStr, "SUCCESS", NoneStr, FALSE, 0, 120) ]
FeatureStores == {NoRows, RowsHiding, RowsMixed}

\* The service as constructed, with no request under way.
ServiceIdle ==
    /\ max_kakao_calls_per_request = 1 + NumKeywords
    /\ keyword_concurrency = 1
    /\ enable_ingestion_enqueue = FALSE
    /\ redis_client = FALSE
    /\ directory = Directory(<<>>, <<>>)
    /\ flaky = {}
    /\ Constructed

InitRanking ==
    /\ ServiceIdle
    /\ StoreIdle
    /\ session \in {"none", "ok", "fails"}
    /\ feature_rows \in FeatureStores
    /\ candidates \in Batches
    /\ rank_request \in Requests
    /\ enriched = <<>>
    /\ ranked_hotplaces = <<>>
    /\ rank_pc = "start"
    /\ CrawlIdle
    /\ DedupeIdle
    /\ MappingIdle
    /\ WorkerIdle

AttachFeatures ==
    /\ rank_pc = "start"
    /\ enriched' = AttachWithSession(candidates, session, feature_rows)
    /\ rank_pc' = "attached"
    /\ UNCHANGED <<session, feature_rows, candidates, rank_request, ranked_hotplaces>>
    /\ UNCHANGED not_ranking

RankHotplaces ==
    /\ rank_pc = "attached"
    /\ ranked_hotplaces' = _rank_hotplaces(enriched, rank_request)
    /\ rank_pc' = "ranked"
    /\ UNCHANGED <<session, feature_rows, candidates, rank_request, enriched>>
    /\ UNCHANGED not_ranking

\* A later request served from the cache ranks the cached hotplaces again.
RankCached ==
    /\ rank_pc = "ranked"
    /\ ranked_hotplaces' = _rank_hotplaces(
           AttachWithSession(ranked_hotplaces, session, feature_rows), rank_request)
    /\ rank_pc' = "reranked"
    /\ UNCHANGED <<session, feature_rows, candidates, rank_request, enriched>>
    /\ UNCHANGED not_ranking

NextRanking ==
    \/ AttachFeatures
    \/ RankHotplaces
    \/ RankCached

SpecRanking == InitRanking /\ [][NextRanking]_vars

(***************************************************************************)
(* A cache hit after a cache write.  The candidates come from the          *)
(* directory without rating; they are enriched and ranked, and             *)
(* ranked_hotplaces is what the cache entry holds; later the feature store *)
(* has other rows, the session and the request are those of the later      *)
(* request, and enriched is the list the hit returns (lines 1331-1335).    *)
(***************************************************************************)
RawPool ==
    { RankedInput(22, 100, NoneInt, NoneInt), RankedInput(66, 200, NoneInt, NoneInt),
      RankedInput(77, NoneInt, NoneInt, NoneInt), RankedInput(88, 200, NoneInt, NoneInt) }

RawBatches ==
    UNION { { b \in [1..n -> RawPool] :
                \A i, j \in 1..n : i # j => b[i].kakao_place_id # b[j].kakao_place_id }
            : n \in 1..MaxBatch }

\* The rows at the cache write, and after the worker ingested the places
\* again: 22 rated anew, 66 without rating summary (its crawl was skipped),
\* 88 no longer hidden.
RowsAtWrite ==
    [ id \in {22, 66, 88} |->
        CASE id = 22 -> FeaturePayload(NoneStr, "SUCCESS", NoneStr, TRUE, 420, 2000)
          [] id = 66 -> FeaturePayload(NoneStr, "SUCCESS", NoneStr, TRUE, 450, 40)
          [] id = 88 -> FeaturePayload("low_confidence", "SKIPPED", NoneStr, FALSE, NoneInt, NoneInt) ]
RowsAtHit ==
    [ id \in {22, 66, 88} |->
        CASE id = 22 -> FeaturePayload(NoneStr, "SUCCESS", NoneStr, TRUE, 300, 2500)
          [] id = 66 -> FeaturePayload(NoneStr, "PARTIAL", NoneStr, TRUE, NoneInt, NoneInt)
          [] id = 88 -> FeaturePayload(NoneStr, "SUCCESS", NoneStr, TRUE, 480, 5) ]

InitRerank ==
    /\ ServiceIdle
    /\ StoreIdle
    /\ session \in {"none", "ok"}
    /\ feature_rows \in {NoRows, RowsAtWrite}
    /\ candidates \in RawBatches
    /\ rank_request \in Requests
    /\ enriched = <<>>
    /\ ranked_hotplaces = <<>>
    /\ rank_pc = "start"
    /\ CrawlIdle
    /\ DedupeIdle
    /\ MappingIdle
    /\ WorkerIdle

\* The response is in the cache; the next request for its key comes with its
\* own session and weather, after the worker may have written the rows anew.
LaterRequest(db_session, rows, req) ==
    /\ rank_pc = "ranked"
    /\ session' = db_session
    /\ feature_rows' = rows
    /\ rank_request' = req
    /\ enriched' = <<>>
    /\ rank_pc' = "cached"
    /\ UNCHANGED <<candidates, ranked_hotplaces>>
    /\ UNCHANGED not_ranking

\* A variant that returns the cached hotplaces as they are.
ServeHitAsCached ==
    /\ rank_pc = "cached"
    /\ enriched' = ranked_hotplaces
    /\ rank_pc' = "hit"
    /\ UNCHANGED <<session, feature_rows, candidates, rank_request, ranked_hotplaces>>
    /\ UNCHANGED not_ranking

\* Lines 1331-1335: the hotplaces of the cached response get the features
\* attached and are ranked for the request; nothing is written to the cache.
ServeHit ==
    /\ rank_pc = "cached"
    /\ enriched' = _rank_hotplaces(
           AttachWithSession(ranked_hotplaces, session, feature_rows), rank_request)
    /\ rank_pc' = "hit"
    /\ UNCHANGED <<session, feature_rows, candidates, rank_request, ranked_hotplaces>>
    /\ UNCHANGED not_ranking

NextRerank ==
    \/ AttachFeatures
    \/ RankHotplaces
    \/ \E db_session \in {"none", "ok", "fails"}, rows \in {RowsAtWrite, RowsAtHit},
          req \in Requests : LaterRequest(db_session, rows, req)
    \/ ServeHit

SpecRerank == InitRerank /\ [][NextRerank]_vars

InitCrawl ==
    /\ ServiceIdle
    /\ StoreIdle
    /\ RankingIdle
    /\ crawl_config \in CrawlConfigs
    /\ crawl_pc = "start"
    /\ channel = NoneStr
    /\ ChannelIdle
    /\ warnings = <<>>
    /\ crawl_result = NoCrawlResult
    /\ browser_session = NoSession
    /\ page_visits = <<>>
    /\ DedupeIdle
    /\ MappingIdle
    /\ WorkerIdle

\* Lines 1766-1796: the mapping, the two early returns, the browser session.
StartCrawl(mapping, session_raises) ==
    /\ crawl_pc = "start"
    /\ LET bundle == [ NoCrawlResult EXCEPT
                         !.mapping = mapping,
                         !.status = IF ~mapping.crawlable THEN "SKIPPED" ELSE "COMPLETED",
                         !.skip_reason = mapping.reason ]
       IN IF ~mapping.crawlable
          THEN /\ crawl_result' = bundle
               /\ crawl_pc' = "done"
               /\ UNCHANGED <<channel, browser_session, page_visits>>
          ELSE IF mapping.naver_place_id = NoneStr
          THEN /\ crawl_result' = [bundle EXCEPT !.status = "SKIPPED",
                                                 !.skip_reason = "missing_naver_place_id"]
               /\ crawl_pc' = "done"
               /\ UNCHANGED <<channel, browser_session, page_visits>>
          ELSE IF session_raises
          THEN /\ crawl_result' = [bundle EXCEPT !.status = "SKIPPED",
                                                 !.skip_reason = "crawler_error",
                                                 !.warnings = <<"crawler_error">>]
               /\ crawl_pc' = "done"
               /\ UNCHANGED <<channel, browser_session, page_visits>>
          ELSE /\ crawl_result' = bundle
               /\ crawl_pc' = "open"
               /\ channel' = "reviews"
               /\ browser_session' = OpenSession
               /\ UNCHANGED page_visits
    /\ UNCHANGED <<crawl_config, collected, guard, click_index, counts, stop_reason, warnings>>
    /\ UNCHANGED not_crawl

\* The candidate URLs of a channel, in the order of the lists.
REVIEW_URLS == <<"pcmap.place.naver.com/review/visitor", "m.place.naver.com/review/visitor">>
PHOTO_URLS == <<"pcmap.place.naver.com/photo", "m.place.naver.com/photo">>
ChannelUrls(channel_name) == IF channel_name = "reviews" THEN REVIEW_URLS ELSE PHOTO_URLS

\* What going to a URL finds: _safe_goto returned False, the page is thin
\* (_is_unusable_content_page), or the page can be crawled.
UrlOutcomes == [1..2 -> {"goto_failed", "thin", "usable"}]

\* A variant that takes the first page _safe_goto reached.
RECURSIVE SelectUrlReached(_, _, _, _)
SelectUrlReached(channel_name, url_outcomes, i, visited) ==
    IF i > Len(ChannelUrls(channel_name)) THEN [selected_url |-> NoneStr, visited |-> visited]
    ELSE LET visit == [ channel |-> channel_name, url |-> ChannelUrls(channel_name)[i],
                        found |-> url_outcomes[i] ]
         IN IF url_outcomes[i] # "goto_failed"
            THEN [selected_url |-> visit.url, visited |-> Append(visited, visit)]
            ELSE SelectUrlReached(channel_name, url_outcomes, i + 1, Append(visited, visit))

\* Lines 1555-1567 and 1693-1705: the loop over the candidate URLs from the
\* i-th on; the first one that is reached and not thin is selected.
RECURSIVE SelectUrl(_, _, _, _)
SelectUrl(channel_name, url_outcomes, i, visited) ==
    IF i > Len(ChannelUrls(channel_name)) THEN [selected_url |-> NoneStr, visited |-> visited]
    ELSE LET visit == [ channel |-> channel_name, url |-> ChannelUrls(channel_name)[i],
                        found |-> url_outcomes[i] ]
         IN IF url_outcomes[i] = "usable"
            THEN [selected_url |-> visit.url, visited |-> Append(visited, visit)]
            ELSE SelectUrl(channel_name, url_outcomes, i + 1, Append(visited, visit))

\* The channel opens its page and extracts for the first time; a channel
\* without a selected URL ends with nothing.
OpenChannel(url_outcomes, extracted) ==
    /\ crawl_pc = "open"
    /\ crawl_pc' = "loop"
    /\ LET opening == SelectUrl(channel, url_outcomes, 1, page_visits) IN
       /\ page_visits' = opening.visited
       /\ IF opening.selected_url = NoneStr
          THEN /\ stop_reason' = "open_failed"
               /\ UNCHANGED <<collected, guard, counts>>
          ELSE /\ collected' = Dedupe(channel, extracted)
               /\ guard' = NoGrowthGuard(crawl_config.no_growth_limit, Len(collected'))
               /\ counts' = <<Len(collected')>>
               /\ stop_reason' = "none"
    /\ UNCHANGED <<crawl_config, channel, click_index, warnings, crawl_result, browser_session>>
    /\ UNCHANGED not_crawl

\* A variant whose loop has no ceiling.
ExpandPastCeiling(clicked, extracted) ==
    /\ crawl_pc = "loop"
    /\ stop_reason = "none"
    /\ click_index' = click_index + 1
    /\ IF ~clicked
       THEN /\ stop_reason' = "unavailable"
            /\ UNCHANGED <<collected, guard, counts>>
       ELSE LET latest == Dedupe(channel, extracted)
                merged == Dedupe(channel, collected \o latest)
                observed == observe(guard, Len(merged))
            IN /\ collected' = merged
               /\ counts' = Append(counts, Len(merged))
               /\ guard' = observed[1]
               /\ stop_reason' = IF observed[2] THEN "no_growth"
                                 ELSE "none"
    /\ UNCHANGED <<crawl_config, crawl_pc, channel, warnings, crawl_result, browser_session,
                   page_visits>>
    /\ UNCHANGED not_crawl

\* One iteration of the loop: the expansion, the extraction, the merge and
\* the observation; the iteration at the ceiling is the last.
Expand(clicked, extracted) ==
    /\ crawl_pc = "loop"
    /\ stop_reason = "none"
    /\ click_index' = click_index + 1
    /\ IF ~clicked
       THEN /\ stop_reason' = "unavailable"
            /\ UNCHANGED <<collected, guard, counts>>
       ELSE LET latest == Dedupe(channel, extracted)
                merged == Dedupe(channel, collected \o latest)
                observed == observe(guard, Len(merged))
            IN /\ collected' = merged
               /\ counts' = Append(counts, Len(merged))
               /\ guard' = observed[1]
               /\ stop_reason' = IF observed[2] THEN "no_growth"
                                 ELSE IF click_index' = Ceiling(channel) THEN "exhausted"
                                 ELSE "none"
    /\ UNCHANGED <<crawl_config, crawl_pc, channel, warnings, crawl_result, browser_session,
                   page_visits>>
    /\ UNCHANGED not_crawl

\* A variant that records the warnings and leaves the status alone.
FinishedKeepingStatus(bundle, channel_warnings) ==
    [bundle EXCEPT !.warnings = channel_warnings]

\* Lines 1825-1839 and the finally clause: PARTIAL when a channel warned.
Finished(bundle, channel_warnings) ==
    IF channel_warnings # <<>>
    THEN [bundle EXCEPT !.status = "PARTIAL", !.warnings = channel_warnings]
    ELSE bundle

\* What the channel hands back goes into the result; the photos channel is
\* next after the reviews channel, the end of the crawl after the photos.
ChannelEnds(reviews, rating_summary, photos, channel_warnings, failing) ==
    /\ warnings' = channel_warnings
    /\ collected' = <<>>
    /\ guard' = NoGuard
    /\ click_index' = 0
    /\ counts' = <<>>
    /\ stop_reason' = "none"
    /\ IF channel = "reviews"
       THEN /\ crawl_result' = [crawl_result EXCEPT !.reviews = reviews,
                                                    !.rating_summary = rating_summary]
            /\ channel' = "photos"
            /\ crawl_pc' = "open"
            /\ UNCHANGED browser_session
       ELSE /\ crawl_result' = Finished([crawl_result EXCEPT !.photos = photos],
                                        channel_warnings)
            /\ channel' = NoneStr
            /\ crawl_pc' = "done"
            /\ browser_session' = _close_browser_session(browser_session, failing)
    /\ UNCHANGED <<crawl_config, page_visits>>
    /\ UNCHANGED not_crawl

ChannelReturns ==
    /\ crawl_pc = "loop"
    /\ stop_reason # "none"
    /\ \E failing \in CloseFailures :
          ChannelEnds(collected, stop_reason # "open_failed", collected, warnings, failing)

\* Anything the channel does not catch itself (a wait, a page probe).
ChannelRaises ==
    /\ crawl_pc \in {"open", "loop"}
    /\ stop_reason = "none"
    /\ \E failing \in CloseFailures :
          ChannelEnds(<<>>, FALSE, <<>>,
                      Append(warnings, IF channel = "reviews" THEN "review_error" ELSE "photo_error"),
                      failing)

NextCrawl ==
    \/ \E mapping \in MappingResults, session_raises \in BOOLEAN : StartCrawl(mapping, session_raises)
    \/ \E url_outcomes \in UrlOutcomes, extracted \in Pages(channel) :
          OpenChannel(url_outcomes, extracted)
    \/ \E clicked \in BOOLEAN, extracted \in Pages(channel) : Expand(clicked, extracted)
    \/ ChannelReturns
    \/ ChannelRaises

SpecCrawl == InitCrawl /\ [][NextCrawl]_vars

(***************************************************************************)
(* _NoGrowthGuard on its own: a guard built from any limit and baseline    *)
(* observes any sequence of counts.  counts holds the baseline followed by *)
(* the observed counts; stop_reason is "no_growth" when the last call of   *)
(* observe returned True.                                                  *)
(***************************************************************************)
MaxObservations == 5
MaxCount == 3

InitGuard ==
    /\ ServiceIdle
    /\ StoreIdle
    /\ RankingIdle
    /\ DedupeIdle
    /\ MappingIdle
    /\ WorkerIdle
    /\ \E limit \in (0 - 1)..MaxNoGrowthLimit, baseline \in (0 - 1)..(MaxCount - 1) :
          /\ crawl_config = [CrawlerConfig(1, 1, 1) EXCEPT !.no_growth_limit = limit]
          /\ guard = NoGrowthGuard(limit, baseline)
          /\ counts = <<baseline>>
    /\ crawl_pc = "guard"
    /\ channel = NoneStr
    /\ collected = <<>>
    /\ click_index = 0
    /\ stop_reason = "none"
    /\ warnings = <<>>
    /\ crawl_result = NoCrawlResult
    /\ browser_session = NoSession
    /\ page_visits = <<>>

Observe(current_count) ==
    /\ crawl_pc = "guard"
    /\ Len(counts) <= MaxObservations
    /\ LET observed == observe(guard, current_count) IN
          /\ guard' = observed[1]
          /\ stop_reason' = IF observed[2] THEN "no_growth" ELSE "none"
    /\ counts' = Append(counts, current_count)
    /\ UNCHANGED <<crawl_config, crawl_pc, channel, collected, click_index, warnings,
                   crawl_result, browser_session, page_visits>>
    /\ UNCHANGED not_crawl

NextGuard == \E current_count \in 0..MaxCount : Observe(current_count)

SpecGuard == InitGuard /\ [][NextGuard]_vars

(***************************************************************************)
(* _dedupe_photos on the lists a page can give, and the merge of the       *)
(* crawl loop (collected = _dedupe_photos([*collected, *latest])).         *)
(***************************************************************************)
OriginAbcFragment == Url("ldb-phinf.pstatic.net", "/abc.jpg", "", "frag", None, TRUE)
BlankUrl   == Url("", "", "", "", None, TRUE)
ProxyNoSrc == Url("search.pstatic.net", "/common/", "type=f", "", None, FALSE)
QueryOnly  == Url("", "", "type=f", "", None, FALSE)

PhotoUrlPool ==
    { DirectA400, DirectA800, DirectB, ProxyF, ProxyG, OriginAbcFragment, BlankUrl,
      ProxyNoSrc, QueryOnly }

MaxPhotos == 3

PhotoLists == UNION { [1..n -> {Photo(url) : url \in PhotoUrlPool}] : n \in 1..MaxPhotos }

InitDedupe ==
    /\ ServiceIdle
    /\ StoreIdle
    /\ RankingIdle
    /\ CrawlIdle
    /\ photo_input \in PhotoLists
    /\ photo_output = <<>>
    /\ dedupe_pc = "start"
    /\ MappingIdle
    /\ WorkerIdle

DedupePhotos ==
    /\ dedupe_pc = "start"
    /\ photo_output' = _dedupe_photos(photo_input)
    /\ dedupe_pc' = "deduped"
    /\ UNCHANGED photo_input
    /\ UNCHANGED not_dedupe

\* A later extraction is deduplicated and merged into what is collected.
MergeLatest(extracted) ==
    /\ dedupe_pc = "deduped"
    /\ photo_output' = _dedupe_photos(photo_output \o _dedupe_photos(extracted))
    /\ dedupe_pc' = "merged"
    /\ UNCHANGED photo_input
    /\ UNCHANGED not_dedupe

NextDedupe ==
    \/ DedupePhotos
    \/ \E extracted \in PhotoPages : MergeLatest(extracted)

SpecDedupe == InitDedupe /\ [][NextDedupe]_vars

(***************************************************************************)
(* resolve_naver_place_mapping.  A candidate of the search carries what    *)
(* the scoring reads: its identifier and name, _name_similarity and        *)
(* _region_similarity in hundredths, and _distance_m in metres (NoneInt    *)
(* when a coordinate is missing).  Confidences are in units of 1e-4.       *)
(***************************************************************************)
Candidate(naver_place_id, matched_name, name_score, region_score, distance_m) ==
    [naver_place_id |-> naver_place_id, matched_name |-> matched_name, name_score |-> name_score, region_score |-> region_score, distance_m |-> distance_m]

MAP_MIN_CONFIDENCE == 5000

_safe_build_mapping_payload ==
    [ status |-> "SKIPPED", reason |-> "unresolved", naver_place_id |-> NoneStr,
      matched_name |-> NoneStr, confidence |-> 0, distance_m |-> NoneInt,
      candidate_count |-> 0, crawlable |-> FALSE ]

DistanceScore(distance_m) ==
    IF distance_m = NoneInt THEN 0
    ELSE IF distance_m <= 300 THEN 100
    ELSE IF distance_m <= 1000 THEN 80
    ELSE IF distance_m <= 3000 THEN 50
    ELSE IF distance_m <= 5000 THEN 20
    ELSE 0

\* Lines 813-850: the scored candidate.
ScoreCandidate(candidate) ==
    LET distance_m == candidate.distance_m
        weighted == IF distance_m = NoneInt
                    THEN 78 * candidate.name_score + 22 * candidate.region_score
                    ELSE 55 * candidate.name_score + 10 * candidate.region_score
                         + 35 * DistanceScore(distance_m)
        penalized == IF distance_m # NoneInt /\ distance_m > 10000 THEN weighted - 3500
                     ELSE IF distance_m # NoneInt /\ distance_m > 5000 THEN weighted - 1800
                     ELSE weighted
        confidence == IF penalized < 0 THEN 0 ELSE IF penalized > 10000 THEN 10000 ELSE penalized
    IN [ naver_place_id |-> candidate.naver_place_id,
         matched_name |-> candidate.matched_name,
         confidence |-> confidence,
         distance_m |-> distance_m,
         name_score |-> 100 * candidate.name_score,
         region_score |-> 100 * candidate.region_score ]

\* Lines 796-850: candidates without an identifier or a name are skipped.
RECURSIVE ScoreCandidates(_)
ScoreCandidates(raw_candidates) ==
    IF raw_candidates = <<>> THEN <<>>
    ELSE (IF Head(raw_candidates).naver_place_id = "" \/ Head(raw_candidates).matched_name = ""
          THEN <<>> ELSE <<ScoreCandidate(Head(raw_candidates))>>)
         \o ScoreCandidates(Tail(raw_candidates))

\* The order of the identifiers of the model as strings.
IdRank(naver_place_id) ==
    CASE naver_place_id = "n1" -> 1 [] naver_place_id = "n2" -> 2
      [] naver_place_id = "n3" -> 3 [] naver_place_id = "n4" -> 4
      [] naver_place_id = "n5" -> 5 [] naver_place_id = "n6" -> 6
      [] naver_place_id = "n7" -> 7 [] naver_place_id = "n8" -> 8
      [] OTHER -> 0

\* The sort key of lines 855-863.
ScoredKeyLess(a, b) ==
    LET da == IF a.distance_m = NoneInt THEN 100000000 ELSE a.distance_m
        db == IF b.distance_m = NoneInt THEN 100000000 ELSE b.distance_m
    IN \/ a.confidence > b.confidence
       \/ a.confidence = b.confidence /\ a.region_score > b.region_score
       \/ a.confidence = b.confidence /\ a.region_score = b.region_score
             /\ a.name_score > b.name_score
       \/ a.confidence = b.confidence /\ a.region_score = b.region_score
             /\ a.name_score = b.name_score /\ da < db
       \/ a.confidence = b.confidence /\ a.region_score = b.region_score
             /\ a.name_score = b.name_score /\ da = db
             /\ IdRank(a.naver_place_id) < IdRank(b.naver_place_id)

RECURSIVE InsertScored(_, _)
InsertScored(x, sorted) ==
    IF sorted = <<>> THEN <<x>>
    ELSE IF ScoredKeyLess(x, Head(sorted)) THEN <<x>> \o sorted
    ELSE <<Head(sorted)>> \o InsertScored(x, Tail(sorted))

RECURSIVE SortScored(_)
SortScored(seq) ==
    IF seq = <<>> THEN <<>>
    ELSE InsertScored(seq[Len(seq)], SortScored(SubSeq(seq, 1, Len(seq) - 1)))

\* A variant that always takes the first of the sorted raw_candidates.
SelectTopCandidate(raw_candidates) ==
    LET scored_candidates == SortScored(ScoreCandidates(raw_candidates))
    IN IF scored_candidates = <<>> THEN <<None, <<>>>>
       ELSE <<scored_candidates[1], scored_candidates>>

\* <<best_candidate, scored_candidates>>.
_select_best_mapping_candidate(raw_candidates) ==
    LET scored_candidates == SortScored(ScoreCandidates(raw_candidates))
    IN IF scored_candidates = <<>> THEN <<None, <<>>>>
       ELSE IF Len(scored_candidates) > 1
               /\ scored_candidates[1].confidence - scored_candidates[2].confidence < 800
               /\ scored_candidates[1].distance_m = NoneInt
               /\ scored_candidates[2].distance_m = NoneInt
               /\ scored_candidates[1].region_score < 3400
               /\ scored_candidates[2].region_score < 3400
            THEN <<None, scored_candidates>>
       ELSE <<scored_candidates[1], scored_candidates>>

\* A variant that maps the best candidate whatever its confidence.
ResolvedAcceptingAny(raw_candidates) ==
    LET selected == _select_best_mapping_candidate(raw_candidates)
        best_candidate == selected[1]
        counted == [_safe_build_mapping_payload EXCEPT !.candidate_count = Len(raw_candidates)]
    IN IF best_candidate = None
       THEN [counted EXCEPT !.reason = IF selected[2] # <<>> THEN "ambiguous_candidates"
                                       ELSE "no_candidates"]
       ELSE [counted EXCEPT !.status = "MAPPED", !.reason = NoneStr,
                            !.naver_place_id = best_candidate.naver_place_id,
                            !.matched_name = best_candidate.matched_name,
                            !.confidence = best_candidate.confidence,
                            !.distance_m = best_candidate.distance_m,
                            !.crawlable = TRUE]

\* A variant whose floor is 0.30.
ResolvedAboveLowerFloor(raw_candidates) ==
    LET selected == _select_best_mapping_candidate(raw_candidates)
        best_candidate == selected[1]
        counted == [_safe_build_mapping_payload EXCEPT !.candidate_count = Len(raw_candidates)]
    IN IF best_candidate = None
       THEN [counted EXCEPT !.reason = IF selected[2] # <<>> THEN "ambiguous_candidates"
                                       ELSE "no_candidates"]
       ELSE IF best_candidate.confidence < 3000
       THEN [counted EXCEPT !.reason = "low_confidence",
                            !.matched_name = best_candidate.matched_name,
                            !.confidence = best_candidate.confidence,
                            !.distance_m = best_candidate.distance_m]
       ELSE [counted EXCEPT !.status = "MAPPED", !.reason = NoneStr,
                            !.naver_place_id = best_candidate.naver_place_id,
                            !.matched_name = best_candidate.matched_name,
                            !.confidence = best_candidate.confidence,
                            !.distance_m = best_candidate.distance_m,
                            !.crawlable = TRUE]

\* Lines 1433-1488: the mapping_payload for the raw_candidates the search extracted.
Resolved(raw_candidates) ==
    LET selected == _select_best_mapping_candidate(raw_candidates)
        best_candidate == selected[1]
        counted == [_safe_build_mapping_payload EXCEPT !.candidate_count = Len(raw_candidates)]
    IN IF best_candidate = None
       THEN [counted EXCEPT !.reason = IF selected[2] # <<>> THEN "ambiguous_candidates"
                                       ELSE "no_candidates"]
       ELSE IF best_candidate.confidence < MAP_MIN_CONFIDENCE
       THEN [counted EXCEPT !.reason = "low_confidence",
                            !.matched_name = best_candidate.matched_name,
                            !.confidence = best_candidate.confidence,
                            !.distance_m = best_candidate.distance_m]
       ELSE [counted EXCEPT !.status = "MAPPED", !.reason = NoneStr,
                            !.naver_place_id = best_candidate.naver_place_id,
                            !.matched_name = best_candidate.matched_name,
                            !.confidence = best_candidate.confidence,
                            !.distance_m = best_candidate.distance_m,
                            !.crawlable = TRUE]

\* What the search can find.  No two confidences differ by exactly 0.08:
\* there the float subtraction of line 868 decides either way.
CandidatePool ==
    { Candidate("n1", "Bowling", 90, 0, NoneInt),
      Candidate("n2", "Bowling 2", 85, 0, NoneInt),
      Candidate("n3", "Bowling Gangnam", 85, 34, NoneInt),
      Candidate("n4", "Bowl", 60, 0, 200),
      Candidate("n5", "Pool hall", 40, 0, NoneInt),
      Candidate("n6", "Bowling 6", 80, 0, NoneInt),
      Candidate("n7", "Bowling far", 80, 0, 12000),
      Candidate("", "Bowling", 90, 0, NoneInt) }

MaxCandidates == 3

CandidateLists ==
    {<<>>} \cup
    UNION { { c \in [1..n -> CandidatePool] :
                \A i, j \in 1..n : i # j => c[i].naver_place_id # c[j].naver_place_id }
            : n \in 1..MaxCandidates }

InitMapping ==
    /\ ServiceIdle
    /\ StoreIdle
    /\ RankingIdle
    /\ CrawlIdle
    /\ DedupeIdle
    /\ WorkerIdle
    /\ place_name \in {NoneStr, "  ", "Bowling"}
    /\ found \in CandidateLists
    /\ mapping_pc = "start"
    /\ mapping_payload = None
    /\ mapping_session = NoSession

\* Lines 1383-1392.
StartResolve ==
    /\ mapping_pc = "start"
    /\ IF place_name = NoneStr \/ Strip(place_name) = ""
       THEN /\ mapping_payload' = [_safe_build_mapping_payload EXCEPT !.reason = "missing_place_name"]
            /\ mapping_pc' = "returned"
       ELSE /\ mapping_payload' = _safe_build_mapping_payload
            /\ mapping_pc' = "lookup"
    /\ UNCHANGED <<place_name, found, mapping_session>>
    /\ UNCHANGED not_mapping

\* The except and finally clauses: whatever raised inside the try block.
SearchError ==
    /\ mapping_payload' = [mapping_payload EXCEPT !.reason = "search_error"]
    /\ mapping_pc' = "returned"
    /\ \E failing \in CloseFailures :
          mapping_session' = _close_browser_session(mapping_session, failing)

\* _fetch_kakao_place_context and _build_mapping_queries.
LookupContext(raises) ==
    /\ mapping_pc = "lookup"
    /\ IF raises THEN SearchError
       ELSE mapping_pc' = "session" /\ UNCHANGED <<mapping_payload, mapping_session>>
    /\ UNCHANGED <<place_name, found>>
    /\ UNCHANGED not_mapping

CreateSession(raises) ==
    /\ mapping_pc = "session"
    /\ IF raises THEN SearchError
       ELSE mapping_pc' = "search" /\ mapping_session' = OpenSession /\ UNCHANGED mapping_payload
    /\ UNCHANGED <<place_name, found>>
    /\ UNCHANGED not_mapping

\* _extract_mapping_candidates, the selection and the return.
SearchCandidates(raises) ==
    /\ mapping_pc = "search"
    /\ IF raises THEN SearchError
       ELSE /\ mapping_payload' = Resolved(found)
            /\ mapping_pc' = "returned"
            /\ \E failing \in CloseFailures :
                  mapping_session' = _close_browser_session(mapping_session, failing)
    /\ UNCHANGED <<place_name, found>>
    /\ UNCHANGED not_mapping

NextMapping ==
    \/ StartResolve
    \/ \E raises \in BOOLEAN : LookupContext(raises)
    \/ \E raises \in BOOLEAN : CreateSession(raises)
    \/ \E raises \in BOOLEAN : SearchCandidates(raises)

SpecMapping == InitMapping /\ [][NextMapping]_vars

(***************************************************************************)
(* crawl_naver_place_bundle from its call: line 1767 resolves the mapping  *)
(* of the place, lines 1778-1791 return early from a mapping that cannot   *)
(* be crawled, and the channels run in a second browser session.           *)
(***************************************************************************)
InitBundle ==
    /\ ServiceIdle
    /\ StoreIdle
    /\ RankingIdle
    /\ DedupeIdle
    /\ WorkerIdle
    /\ crawl_config = CrawlerConfig(1, 1, 1)
    /\ crawl_pc = "start"
    /\ channel = NoneStr
    /\ ChannelIdle
    /\ warnings = <<>>
    /\ crawl_result = NoCrawlResult
    /\ browser_session = NoSession
    /\ page_visits = <<>>
    /\ place_name \in {NoneStr, "  ", "Bowling"}
    /\ found \in {c \in CandidateLists : Len(c) < MaxCandidates}
    /\ mapping_pc = "start"
    /\ mapping_payload = None
    /\ mapping_session = NoSession

\* The mapping the resolver returned is the mapping of the bundle.
CrawlResolved(session_raises) ==
    /\ mapping_pc = "returned"
    /\ StartCrawl(mapping_payload, session_raises)

NextBundle ==
    \/ StartResolve
    \/ \E raises \in BOOLEAN : LookupContext(raises)
    \/ \E raises \in BOOLEAN : CreateSession(raises)
    \/ \E raises \in BOOLEAN : SearchCandidates(raises)
    \/ \E session_raises \in BOOLEAN : CrawlResolved(session_raises)
    \/ \E url_outcomes \in {<<"usable", "usable">>, <<"goto_failed", "thin">>},
          extracted \in Pages(channel) : OpenChannel(url_outcomes, extracted)
    \/ \E clicked \in BOOLEAN, extracted \in Pages(channel) : Expand(clicked, extracted)
    \/ ChannelReturns
    \/ ChannelRaises

SpecBundle == InitBundle /\ [][NextBundle]_vars

(***************************************************************************)
(* IngestionService.create_ingestion_job_from_hotplaces                    *)
(* (backend/app/services/ingestion_service.py): the hotplaces are          *)
(* de-duplicated, the job and its items are committed in one transaction,  *)
(* and the task tasks.ingest_job is then sent to the broker with the job's *)
(* identifier.  The calls are coroutines and interleave at the awaits of   *)
(* _persist_job; _enqueue_job is synchronous.                              *)
(***************************************************************************)
RawHotplace(kakao_place_id, name) == [kakao_place_id |-> kakao_place_id, place_name |-> name]

\* str.strip() on the identifiers of the model.
StripId(s) ==
    CASE s = "  " -> ""
      [] s = " kakao-2 " -> "kakao-2"
      [] OTHER -> s

\* Lines 27-46: the first hotplace of each identifier is kept; hotplaces
\* without an identifier are dropped.
RECURSIVE DeduplicateInto(_, _)
DeduplicateInto(deduped, hotplaces) ==
    IF hotplaces = <<>> THEN deduped
    ELSE LET raw_hotplace == Head(hotplaces)
             kakao_place_id == IF raw_hotplace.kakao_place_id = NoneStr THEN NoneStr
                               ELSE StripId(raw_hotplace.kakao_place_id)
         IN  IF kakao_place_id = NoneStr \/ kakao_place_id = "" \/ HasId(deduped, kakao_place_id)
             THEN DeduplicateInto(deduped, Tail(hotplaces))
             ELSE DeduplicateInto(
                      Append(deduped, RawHotplace(kakao_place_id, raw_hotplace.place_name)),
                      Tail(hotplaces))

_deduplicate_hotplaces(hotplaces) == DeduplicateInto(<<>>, hotplaces)

\* Lines 56-69 and 72-84: the job row and its items.
IngestionJob(id, deduped_items, original_count) ==
    [id |-> id, status |-> "PENDING", total_items |-> Len(deduped_items),
     completed_items |-> 0, failed_items |-> 0,
     requested_item_count |-> original_count,
     items |-> [i \in 1..Len(deduped_items) |-> deduped_items[i].kakao_place_id]]

\* The broker delivers every message twice.
EnqueueJobTwice(broker, job_id) ==
    broker \o << [task |-> "tasks.ingest_job", args |-> ToString(job_id)],
                 [task |-> "tasks.ingest_job", args |-> ToString(job_id)] >>

\* Lines 91-93: signature("tasks.ingest_job").delay(str(job_id)).
_enqueue_job(broker, job_id) ==
    Append(broker, [task |-> "tasks.ingest_job", args |-> ToString(job_id)])

\* The arguments of the calls: something that is not a list, and lists of
\* hotplaces with repeated, padded, blank and missing identifiers.
NotAList == [is_list |-> FALSE, items |-> <<>>]
ListOf(items) == [is_list |-> TRUE, items |-> items]
HotplaceInputs ==
    { NotAList,
      ListOf(<<>>),
      ListOf(<< RawHotplace("kakao-1", "A") >>),
      ListOf(<< RawHotplace(" kakao-2 ", "B"), RawHotplace("kakao-2", "B-dup") >>),
      ListOf(<< RawHotplace("kakao-1", "A"), RawHotplace("kakao-1", "A-dup"),
                RawHotplace("kakao-2", "B"), RawHotplace("", "invalid"),
                RawHotplace(NoneStr, "missing-id") >>) }

CallRaised(error) == [kind |-> "raised", job_id |-> NoneInt, error |-> error]
CallReturned(job_id) == [kind |-> "returned", job_id |-> job_id, error |-> NoneStr]

InitIngest ==
    /\ ServiceIdle
    /\ StoreIdle
    /\ RankingIdle
    /\ CrawlIdle
    /\ DedupeIdle
    /\ MappingIdle
    /\ IngestIdle
    /\ RetryIdle

\* Lines 101-110: the call and its argument check.
CallCreate(c, hotplaces) ==
    /\ ingest_pc[c] = "idle"
    /\ ingest_hotplaces' = [ingest_hotplaces EXCEPT ![c] = hotplaces]
    /\ IF ~hotplaces.is_list
       THEN /\ ingest_pc' = [ingest_pc EXCEPT ![c] = "raised"]
            /\ ingest_outcome' = [ingest_outcome EXCEPT ![c] = CallRaised("ValueError")]
       ELSE /\ ingest_pc' = [ingest_pc EXCEPT ![c] = "persist"]
            /\ UNCHANGED ingest_outcome
    /\ UNCHANGED <<ingest_job_id, job_table, broker_queue, next_job_id>>
    /\ UNCHANGED not_ingest

\* Lines 112-124 with _persist_job (48-89).  failure is "none", "commit"
\* (the transaction raises and nothing is stored) or "refresh" (the
\* transaction is committed and session.refresh raises).
PersistJob(c, failure) ==
    /\ ingest_pc[c] = "persist"
    /\ LET items == ingest_hotplaces[c].items
           job == IngestionJob(next_job_id, _deduplicate_hotplaces(items), Len(items))
       IN  /\ next_job_id' = next_job_id + 1
           /\ job_table' = IF failure = "commit" THEN job_table ELSE Append(job_table, job)
           /\ IF failure = "none"
              THEN /\ ingest_job_id' = [ingest_job_id EXCEPT ![c] = job.id]
                   /\ ingest_pc' = [ingest_pc EXCEPT ![c] = "enqueue"]
                   /\ UNCHANGED ingest_outcome
              ELSE /\ ingest_pc' = [ingest_pc EXCEPT ![c] = "raised"]
                   /\ ingest_outcome' = [ingest_outcome EXCEPT ![c] = CallRaised("SQLAlchemyError")]
                   /\ UNCHANGED ingest_job_id
    /\ UNCHANGED <<ingest_hotplaces, broker_queue>>
    /\ UNCHANGED not_ingest

\* Lines 126-133: the task is sent and the identifier returned, or the
\* broker's error is raised.
EnqueueJob(c, raises) ==
    /\ ingest_pc[c] = "enqueue"
    /\ IF raises
       THEN /\ ingest_pc' = [ingest_pc EXCEPT ![c] = "raised"]
            /\ ingest_outcome' = [ingest_outcome EXCEPT ![c] = CallRaised("OperationalError")]
            /\ UNCHANGED broker_queue
       ELSE /\ broker_queue' = _enqueue_job(broker_queue, ingest_job_id[c])
            /\ ingest_pc' = [ingest_pc EXCEPT ![c] = "returned"]
            /\ ingest_outcome' = [ingest_outcome EXCEPT ![c] = CallReturned(ingest_job_id[c])]
    /\ UNCHANGED <<ingest_hotplaces, ingest_job_id, job_table, next_job_id>>
    /\ UNCHANGED not_ingest

NextIngest ==
    \/ \E c \in Calls, hotplaces \in HotplaceInputs : CallCreate(c, hotplaces)
    \/ \E c \in Calls, failure \in {"none", "commit", "refresh"} : PersistJob(c, failure)
    \/ \E c \in Calls, raises \in BOOLEAN : EnqueueJob(c, raises)

SpecIngest == InitIngest /\ [][NextIngest]_vars

(***************************************************************************)
(* _retry_action under the safe wrappers (worker/crawlers/naver_place.py,  *)
(* lines 895-1030).  A wrapper runs one _retry_action round (_safe_goto,   *)
(* _safe_extract), one round per selector found on the page (_safe_click)  *)
(* or a round for the mouse wheel followed, when that one raised, by a     *)
(* round for window.scrollBy (_safe_scroll).  An invocation of the action  *)
(* returns ("ok", or "not_list": a value that is no list) or raises        *)
(* ("timeout", "error").                                                   *)
(***************************************************************************)
MAX_RETRY_ATTEMPTS == 3

\* A call of a wrapper: present tells, for each round the wrapper may run,
\* whether it is run (a selector is run when it matches an element).
SafeCall(wrapper, present) == [wrapper |-> wrapper, present |-> present]
SafeCalls ==
    { SafeCall("goto", <<TRUE>>), SafeCall("extract", <<TRUE>>),
      SafeCall("scroll", <<TRUE, TRUE>>),
      SafeCall("click", <<FALSE>>), SafeCall("click", <<FALSE, TRUE>>),
      SafeCall("click", <<TRUE, TRUE>>) }

ActionOutcomes == {"ok", "not_list", "timeout", "error"}

\* The first round from `from` on that is run, 0 when there is none.
FirstRound(present, from) ==
    IF \E i \in from..Len(present) : present[i]
    THEN CHOOSE i \in from..Len(present) :
             present[i] /\ \A j \in from..(i - 1) : ~present[j]
    ELSE 0

\* What the wrapper returns when a round returned value, and when every
\* round raised.
WrapperSuccess(wrapper, value) ==
    IF wrapper = "extract" THEN (IF value = "ok" THEN "list" ELSE "empty") ELSE "True"
WrapperFailure(wrapper) == IF wrapper = "extract" THEN "empty" ELSE "False"

InitRetry ==
    /\ ServiceIdle
    /\ StoreIdle
    /\ RankingIdle
    /\ CrawlIdle
    /\ DedupeIdle
    /\ MappingIdle
    /\ IngestIdle
    /\ RetryIdle

\* The wrapper is called and enters its first round, if it has one.
CallSafe(safe_call) ==
    /\ retry_frame.pc = "idle"
    /\ LET first == FirstRound(safe_call.present, 1) IN
       retry_frame' =
           [ NoFrame EXCEPT !.wrapper = safe_call.wrapper, !.present = safe_call.present,
                            !.round = first,
                            !.pc = IF first = 0 THEN "done" ELSE "retrying",
                            !.outcome = IF first = 0 THEN WrapperFailure(safe_call.wrapper)
                                        ELSE NoneStr ]
    /\ action_log' = <<>>
    /\ UNCHANGED not_retry

\* A variant of the loop that tries once more after the last attempt.
AttemptActionOnceMore(action_outcome) ==
    /\ retry_frame.pc = "retrying"
    /\ action_log' = Append(action_log, [round |-> retry_frame.round,
                                         attempt |-> retry_frame.attempt + 1,
                                         outcome |-> action_outcome])
    /\ IF action_outcome \in {"ok", "not_list"}
       THEN retry_frame' =
                [retry_frame EXCEPT !.pc = "done", !.attempt = @ + 1,
                                    !.outcome = WrapperSuccess(retry_frame.wrapper, action_outcome)]
       ELSE IF retry_frame.attempt + 1 <= MAX_RETRY_ATTEMPTS
       THEN retry_frame' = [retry_frame EXCEPT !.attempt = @ + 1, !.last_exc = action_outcome]
       ELSE LET following == FirstRound(retry_frame.present, retry_frame.round + 1)
                thrown == Append(retry_frame.raised,
                                 [round |-> retry_frame.round, exc |-> action_outcome,
                                  attempt |-> retry_frame.attempt + 1])
            IN  retry_frame' =
                    IF following = 0
                    THEN [retry_frame EXCEPT !.pc = "done", !.attempt = @ + 1,
                                             !.last_exc = action_outcome, !.raised = thrown,
                                             !.outcome = WrapperFailure(retry_frame.wrapper)]
                    ELSE [retry_frame EXCEPT !.round = following, !.attempt = 0,
                                             !.last_exc = NoneStr, !.raised = thrown]
    /\ UNCHANGED not_retry

\* One pass of the loop of _retry_action (lines 902-925): the action is
\* invoked; its value is returned, or its exception kept and, after the
\* last attempt, raised to the wrapper (lines 927-929), which goes on to
\* its next round or returns its failure value.
AttemptAction(action_outcome) ==
    /\ retry_frame.pc = "retrying"
    /\ action_log' = Append(action_log, [round |-> retry_frame.round,
                                         attempt |-> retry_frame.attempt + 1,
                                         outcome |-> action_outcome])
    /\ IF action_outcome \in {"ok", "not_list"}
       THEN retry_frame' =
                [retry_frame EXCEPT !.pc = "done", !.attempt = @ + 1,
                                    !.outcome = WrapperSuccess(retry_frame.wrapper, action_outcome)]
       ELSE IF retry_frame.attempt + 1 < MAX_RETRY_ATTEMPTS
       THEN retry_frame' = [retry_frame EXCEPT !.attempt = @ + 1, !.last_exc = action_outcome]
       ELSE LET following == FirstRound(retry_frame.present, retry_frame.round + 1)
                thrown == Append(retry_frame.raised,
                                 [round |-> retry_frame.round, exc |-> action_outcome,
                                  attempt |-> retry_frame.attempt + 1])
            IN  retry_frame' =
                    IF following = 0
                    THEN [retry_frame EXCEPT !.pc = "done", !.attempt = @ + 1,
                                             !.last_exc = action_outcome, !.raised = thrown,
                                             !.outcome = WrapperFailure(retry_frame.wrapper)]
                    ELSE [retry_frame EXCEPT !.round = following, !.attempt = 0,
                                             !.last_exc = NoneStr, !.raised = thrown]
    /\ UNCHANGED not_retry

NextRetry ==
    \/ \E safe_call \in SafeCalls : CallSafe(safe_call)
    \/ \E action_outcome \in ActionOutcomes : AttemptAction(action_outcome)

SpecRetry == InitRetry /\ [][NextRetry]_vars

(***************************************************************************)
(* _pick_best_kakao_document (worker/crawlers/naver_place.py).  A document *)
(* of the directory carries what the function reads: its id and           *)
(* place_name, _name_similarity with the place's name in hundredths and    *)
(* _distance_m from the place in metres (NoneInt without coordinates).     *)
(* Scores are in units of 1/40000, where the proximity bonus is exact.     *)
(***************************************************************************)
KakaoDocument(id, doc_name, name_score, distance_m) ==
    [id |-> id, place_name |-> doc_name, name_score |-> name_score, distance_m |-> distance_m]

\* Lines 513-521: name_score + proximity_bonus.
DocumentScore(doc) ==
    LET capped == IF doc.distance_m > 2000 THEN 2000 ELSE doc.distance_m
        proximity_bonus == IF doc.distance_m = NoneInt THEN 0 ELSE 14000 - 7 * capped
    IN 400 * doc.name_score + proximity_bonus

\* Lines 505-525: the first document of the best score among the named ones;
\* best is <<best_doc, best_score>>.
RECURSIVE PickByScore(_, _)
PickByScore(documents, best) ==
    IF documents = <<>> THEN best[1]
    ELSE LET doc == Head(documents) IN
         IF Strip(doc.place_name) = "" THEN PickByScore(Tail(documents), best)
         ELSE IF DocumentScore(doc) > best[2]
         THEN PickByScore(Tail(documents), <<doc, DocumentScore(doc)>>)
         ELSE PickByScore(Tail(documents), best)

\* Lines 500-503: the first document whose id is the place's.
RECURSIVE FirstWithId(_, _)
FirstWithId(documents, normalized_place_id) ==
    IF documents = <<>> THEN None
    ELSE IF StripId(Head(documents).id) = normalized_place_id THEN Head(documents)
    ELSE FirstWithId(Tail(documents), normalized_place_id)

\* A variant that goes by the score alone.
PickBestByScoreOnly(kakao_place_id, documents) ==
    PickByScore(documents, <<None, 0 - 40000>>)

_pick_best_kakao_document(kakao_place_id, documents) ==
    LET normalized_place_id == StripId(kakao_place_id)
        matched == IF normalized_place_id = "" THEN None
                   ELSE FirstWithId(documents, normalized_place_id)
    IN IF matched # None THEN matched
       ELSE PickByScore(documents, <<None, 0 - 40000>>)

KakaoDocuments ==
    { KakaoDocument("kakao-1", "Pool hall", 10, NoneInt),
      KakaoDocument("kakao-2", "Bowling", 100, 100),
      KakaoDocument(" kakao-2 ", "Bowl", 60, 2000),
      KakaoDocument("", "Bowling", 100, NoneInt),
      KakaoDocument("kakao-3", "", 0, 100),
      KakaoDocument("kakao-1", "", 0, 3000) }

MaxDocuments == 3

DocumentLists ==
    UNION { { d \in [1..n -> KakaoDocuments] : \A i, j \in 1..n : i # j => d[i] # d[j] }
            : n \in 1..MaxDocuments }

PlaceIds == {"kakao-1", "kakao-2", " kakao-2 ", "kakao-9", "", "  "}

InitLookup ==
    /\ ServiceIdle
    /\ RankingIdle
    /\ CrawlIdle
    /\ DedupeIdle
    /\ MappingIdle
    /\ WorkerIdle
    /\ \E kakao_place_id \in PlaceIds, documents \in DocumentLists :
          kakao_lookup = [ NoLookup EXCEPT !.pc = "called",
                                           !.kakao_place_id = kakao_place_id,
                                           !.documents = documents ]
    /\ feature_table = <<>>
    /\ upsert_log = <<>>
    /\ recrawl_filter = NoFilterCall
    /\ ingest_run = NoRun

PickDocument ==
    /\ kakao_lookup.pc = "called"
    /\ kakao_lookup' =
          [ kakao_lookup EXCEPT
              !.pc = "returned",
              !.best_doc = _pick_best_kakao_document(kakao_lookup.kakao_place_id,
                                                     kakao_lookup.documents) ]
    /\ UNCHANGED <<feature_table, upsert_log, recrawl_filter, ingest_run>>
    /\ UNCHANGED not_store

NextLookup == PickDocument

SpecLookup == InitLookup /\ [][NextLookup]_vars

(***************************************************************************)
(* _upsert_place_ingestion_feature (worker/tasks.py) on the table          *)
(* place_ingestion_feature, whose column kakao_place_id is unique          *)
(* (backend/app/models/sql.py).  The table is the sequence of its rows;    *)
(* upsert_log holds the calls made, in their order.                        *)
(***************************************************************************)
FEATURE_REVIEW_SAMPLE_LIMIT == 50
FEATURE_PHOTO_SAMPLE_LIMIT == 50

Take(seq, n) == SubSeq(seq, 1, IF Len(seq) < n THEN Len(seq) ELSE n)

\* SELECT ... WHERE kakao_place_id = %s and fetchone: the index of the row,
\* 0 when there is none.
RowOf(table, kakao_place_id) ==
    IF \E i \in 1..Len(table) : table[i].kakao_place_id = kakao_place_id
    THEN CHOOSE i \in 1..Len(table) :
            /\ table[i].kakao_place_id = kakao_place_id
            /\ \A j \in 1..(i - 1) : table[j].kakao_place_id # kakao_place_id
    ELSE 0

\* A variant that always writes what the crawl brought.
FeatureRowReplacing(table, uuid, item, crawled_reviews, crawled_photos, naver_mapping_payload) ==
    [ id |-> uuid,
      kakao_place_id |-> item.kakao_place_id,
      latest_review_count |-> Len(crawled_reviews),
      latest_photo_count |-> Len(crawled_photos),
      feature_payload |->
          [ latest_review_sample |-> Take(crawled_reviews, FEATURE_REVIEW_SAMPLE_LIMIT),
            latest_photo_sample |-> Take(crawled_photos, FEATURE_PHOTO_SAMPLE_LIMIT),
            naver_mapping |-> naver_mapping_payload ] ]

\* Lines 364-403: the row to write; the photos of the existing row are kept
\* when the crawl brought none.
FeatureRow(table, uuid, item, crawled_reviews, crawled_photos, naver_mapping_payload) ==
    LET existing == RowOf(table, item.kakao_place_id)
        keep == /\ Len(crawled_photos) = 0
                /\ existing # 0
                /\ table[existing].latest_photo_count > 0
                /\ table[existing].feature_payload.latest_photo_sample # <<>>
    IN [ id |-> uuid,
         kakao_place_id |-> item.kakao_place_id,
         latest_review_count |-> Len(crawled_reviews),
         latest_photo_count |-> IF keep THEN table[existing].latest_photo_count
                                ELSE Len(crawled_photos),
         feature_payload |->
             [ latest_review_sample |-> Take(crawled_reviews, FEATURE_REVIEW_SAMPLE_LIMIT),
               latest_photo_sample |->
                   IF keep
                   THEN Take(table[existing].feature_payload.latest_photo_sample,
                             FEATURE_PHOTO_SAMPLE_LIMIT)
                   ELSE Take(crawled_photos, FEATURE_PHOTO_SAMPLE_LIMIT),
               naver_mapping |-> naver_mapping_payload ] ]

\* A variant whose INSERT has no ON CONFLICT clause on a table without the
\* unique index.
InsertFeatureRow(table, uuid, item, crawled_reviews, crawled_photos, naver_mapping_payload) ==
    Append(table, FeatureRow(table, uuid, item, crawled_reviews, crawled_photos, naver_mapping_payload))

\* Lines 405-447: INSERT ... ON CONFLICT (kakao_place_id) DO UPDATE SET every
\* column but id and kakao_place_id.
_upsert_place_ingestion_feature(table, uuid, item, crawled_reviews, crawled_photos, naver_mapping_payload) ==
    LET excluded == FeatureRow(table, uuid, item, crawled_reviews, crawled_photos, naver_mapping_payload)
        conflict == RowOf(table, item.kakao_place_id)
    IN IF conflict = 0 THEN Append(table, excluded)
       ELSE [ table EXCEPT ![conflict] =
                [ @ EXCEPT !.latest_review_count = excluded.latest_review_count,
                           !.latest_photo_count = excluded.latest_photo_count,
                           !.feature_payload = excluded.feature_payload ] ]

MaxUpserts == 3

\* What the crawl of one item brings: the mapping of the resolver, the
\* reviews and the photos.
IngestedMappings ==
    { Resolved(<<Candidate("n1", "Bowling", 90, 0, NoneInt)>>),
      Resolved(<<Candidate("n3", "Bowling Gangnam", 85, 34, NoneInt)>>),
      Resolved(<<Candidate("n5", "Pool hall", 40, 0, NoneInt)>>) }
IngestedReviews == { <<>>, <<"r1">> }
IngestedPhotos == { <<>>, <<"p1", "p2">> }
IngestedItems == { [kakao_place_id |-> "kakao-1"], [kakao_place_id |-> "kakao-2"] }

InitStore ==
    /\ ServiceIdle
    /\ RankingIdle
    /\ CrawlIdle
    /\ DedupeIdle
    /\ MappingIdle
    /\ WorkerIdle
    /\ kakao_lookup = NoLookup
    /\ feature_table = <<>>
    /\ upsert_log = <<>>
    /\ recrawl_filter = NoFilterCall
    /\ ingest_run = NoRun

\* ingest_job stores the feature of one item (lines 530-543).
UpsertFeature(item, crawled_reviews, crawled_photos, naver_mapping_payload) ==
    /\ Len(upsert_log) < MaxUpserts
    /\ feature_table' = _upsert_place_ingestion_feature(
            feature_table, Len(upsert_log) + 1, item, crawled_reviews, crawled_photos,
            naver_mapping_payload)
    /\ upsert_log' = Append(upsert_log,
            [ kakao_place_id |-> item.kakao_place_id, reviews |-> crawled_reviews,
              photos |-> crawled_photos, naver_mapping |-> naver_mapping_payload ])
    /\ UNCHANGED <<kakao_lookup, recrawl_filter, ingest_run>>
    /\ UNCHANGED not_store

NextStore ==
    \E item \in IngestedItems, crawled_reviews \in IngestedReviews,
       crawled_photos \in IngestedPhotos, naver_mapping_payload \in IngestedMappings :
        UpsertFeature(item, crawled_reviews, crawled_photos, naver_mapping_payload)

SpecStore == InitStore /\ [][NextStore]_vars

(***************************************************************************)
(* _maybe_enqueue_ingestion_job on its own (recommendation_service.py,     *)
(* lines 1157-1225).  Times are in minutes; the hotplaces are their        *)
(* kakao_place_id; feature_rows_at maps the ids that have a row of         *)
(* place_ingestion_feature to the row's last_ingested_at.                  *)
(***************************************************************************)
MaxRecrawlMinutes == 2
MaxHotplaces == 2
UtcNow == MaxRecrawlMinutes + 1
RecrawlIds == {22, 66, 77}

\* The last_ingested_at of _fetch_hotplace_feature_map (lines 479-530):
\* nothing without a session or when the query raises.
LastIngestedAtMap(db_session, rows, kakao_place_ids) ==
    IF db_session # "ok" \/ kakao_place_ids = <<>> THEN EmptyMap
    ELSE [ id \in DOMAIN rows \cap {kakao_place_ids[i] : i \in 1..Len(kakao_place_ids)}
             |-> rows[id] ]

\* A variant whose window includes its far end.
RecentlyIngestedInclusive(feature_map, kakao_place_id, utcnow, min_recrawl_minutes) ==
    /\ kakao_place_id \in DOMAIN feature_map
    /\ feature_map[kakao_place_id] # NoneInt
    /\ utcnow - feature_map[kakao_place_id] <= min_recrawl_minutes

\* Lines 1182-1189: the row has a datetime and now - last_ingested_at is
\* below the threshold.
RecentlyIngested(feature_map, kakao_place_id, utcnow, min_recrawl_minutes) ==
    /\ kakao_place_id \in DOMAIN feature_map
    /\ feature_map[kakao_place_id] # NoneInt
    /\ utcnow - feature_map[kakao_place_id] < min_recrawl_minutes

\* Lines 1181-1190: the loop over the hotplaces from the i-th on.
RECURSIVE FilterHotplaces(_, _, _, _, _, _)
FilterHotplaces(hotplaces, feature_map, utcnow, min_recrawl_minutes, i, filtered_hotplaces) ==
    IF i > Len(hotplaces) THEN filtered_hotplaces
    ELSE FilterHotplaces(hotplaces, feature_map, utcnow, min_recrawl_minutes, i + 1,
            IF RecentlyIngested(feature_map, hotplaces[i], utcnow, min_recrawl_minutes)
            THEN filtered_hotplaces
            ELSE Append(filtered_hotplaces, hotplaces[i]))

\* Lines 1170-1198.
HotplacesToEnqueue(hotplaces, db_session, rows, utcnow, min_recrawl_minutes) ==
    IF db_session # "none" /\ min_recrawl_minutes > 0
    THEN FilterHotplaces(hotplaces,
                         LastIngestedAtMap(db_session, rows, hotplaces),
                         utcnow, min_recrawl_minutes, 1, <<>>)
    ELSE hotplaces

HotplaceLists ==
    UNION { { h \in [1..n -> RecrawlIds] : \A i, j \in 1..n : i # j => h[i] # h[j] }
            : n \in 0..MaxHotplaces }

\* The rows: last_ingested_at of the places that have one (NoneInt: null).
IngestedAt == UNION { [ids -> {NoneInt} \cup 0..UtcNow] : ids \in SUBSET RecrawlIds }

InitRecrawl ==
    /\ ServiceIdle
    /\ RankingIdle
    /\ CrawlIdle
    /\ DedupeIdle
    /\ MappingIdle
    /\ WorkerIdle
    /\ kakao_lookup = NoLookup
    /\ feature_table = <<>>
    /\ upsert_log = <<>>
    /\ ingest_run = NoRun
    /\ \E enabled \in BOOLEAN, min_recrawl_minutes \in 0..MaxRecrawlMinutes,
          db_session \in {"none", "ok", "fails"}, rows \in IngestedAt,
          hotplaces \in HotplaceLists :
          recrawl_filter =
             [ pc |-> "called", enable_ingestion_enqueue |-> enabled,
               ingestion_min_recrawl_minutes |-> min_recrawl_minutes,
               db_session |-> db_session, feature_rows_at |-> rows, utcnow |-> UtcNow,
               hotplaces |-> hotplaces,
               create_calls |-> <<>>,      \* the lists create_ingestion_job_from_hotplaces got
               created_jobs |-> <<>>,      \* the lists of the jobs it created
               raised |-> FALSE ]

\* The whole call; create_raises: create_ingestion_job_from_hotplaces raises.
MaybeEnqueueIngestionJob(create_raises) ==
    /\ recrawl_filter.pc = "called"
    /\ LET hotplaces_to_enqueue ==
              HotplacesToEnqueue(recrawl_filter.hotplaces, recrawl_filter.db_session,
                                 recrawl_filter.feature_rows_at, recrawl_filter.utcnow,
                                 recrawl_filter.ingestion_min_recrawl_minutes)
       IN recrawl_filter' =
             IF \/ ~recrawl_filter.enable_ingestion_enqueue
                \/ recrawl_filter.hotplaces = <<>>
                \/ hotplaces_to_enqueue = <<>>
             THEN [recrawl_filter EXCEPT !.pc = "returned"]
             ELSE [recrawl_filter EXCEPT
                     !.pc = "returned",
                     !.create_calls = Append(@, hotplaces_to_enqueue),
                     !.created_jobs = IF create_raises THEN @
                                      ELSE Append(@, hotplaces_to_enqueue)]
    /\ UNCHANGED <<kakao_lookup, feature_table, upsert_log, ingest_run>>
    /\ UNCHANGED not_store

NextRecrawl == \E create_raises \in BOOLEAN : MaybeEnqueueIngestionJob(create_raises)

SpecRecrawl == InitRecrawl /\ [][NextRecrawl]_vars

(***************************************************************************)
(* ingest_job (src/worker/tasks.py, lines 460-612).  ingest_run holds the  *)
(* rows of the job and of its items as the committed transactions left     *)
(* them, the local counters of the run, and how the run ended.  An item    *)
(* ends as COMPLETED, as SKIPPED (the bundle's status), with an exception  *)
(* the item's handler catches, or with a PyMongoError, which the handler   *)
(* raises again and for which the task is retried.                         *)
(***************************************************************************)
MaxItems == 2
MaxTaskRetries == 3

\* A variant that lets one failed item fail the job.
ResolveFinalStatusFailingOnAny(total_items, completed_items, failed_items) ==
    IF total_items = 0 THEN "COMPLETED"
    ELSE IF failed_items = 0 THEN "COMPLETED"
    ELSE "FAILED"

\* Lines 450-457.
_resolve_final_status(total_items, completed_items, failed_items) ==
    IF total_items = 0 THEN "COMPLETED"
    ELSE IF failed_items = 0 THEN "COMPLETED"
    ELSE IF completed_items = 0 THEN "FAILED"
    ELSE "PARTIAL"

ItemEndings == {"COMPLETED", "SKIPPED", "exception", "PyMongoError"}

InitJob ==
    /\ ServiceIdle
    /\ RankingIdle
    /\ CrawlIdle
    /\ DedupeIdle
    /\ MappingIdle
    /\ WorkerIdle
    /\ kakao_lookup = NoLookup
    /\ feature_table = <<>>
    /\ upsert_log = <<>>
    /\ recrawl_filter = NoFilterCall
    /\ \E job_found \in BOOLEAN, n \in 0..MaxItems :
          ingest_run =
             [ pc |-> "called", job_found |-> job_found,
               job_status |-> IF job_found THEN "PENDING" ELSE NoneStr,
               job_completed_items |-> 0, job_failed_items |-> 0,
               item_status |-> IF job_found THEN [i \in 1..n |-> "PENDING"] ELSE <<>>,
               position |-> 0, total_items |-> 0, completed_items |-> 0,
               failed_items |-> 0, skipped_items |-> 0,
               ended |-> NoneStr,        \* the status returned, or "raised"
               retries |-> 0 ]

\* Lines 478-486: a job that is not found ends the task; a job that is
\* found is PROCESSING and its items are read.
BeginJob ==
    /\ ingest_run.pc = "called"
    /\ ingest_run' =
          IF ~ingest_run.job_found
          THEN [ingest_run EXCEPT !.pc = "ended", !.ended = "NOT_FOUND"]
          ELSE [ingest_run EXCEPT !.pc = "loop", !.job_status = "PROCESSING",
                                  !.total_items = Len(ingest_run.item_status),
                                  !.position = 0, !.completed_items = 0,
                                  !.failed_items = 0, !.skipped_items = 0]
    /\ UNCHANGED <<kakao_lookup, feature_table, upsert_log, recrawl_filter>>
    /\ UNCHANGED not_store

\* Lines 488-493: the next item is PROCESSING.
BeginItem ==
    /\ ingest_run.pc = "loop"
    /\ ingest_run.position < ingest_run.total_items
    /\ ingest_run' = [ingest_run EXCEPT !.pc = "item",
                                        !.position = @ + 1,
                                        !.item_status[ingest_run.position + 1] = "PROCESSING"]
    /\ UNCHANGED <<kakao_lookup, feature_table, upsert_log, recrawl_filter>>
    /\ UNCHANGED not_store

\* Lines 495-564 for the item that is PROCESSING, and for a PyMongoError
\* the handler of the task (lines 596-607).
EndItem(ending) ==
    /\ ingest_run.pc = "item"
    /\ ingest_run' =
          CASE ending = "COMPLETED" ->
                 [ingest_run EXCEPT !.pc = "loop",
                                    !.item_status[ingest_run.position] = "COMPLETED",
                                    !.completed_items = @ + 1]
            [] ending = "SKIPPED" ->
                 [ingest_run EXCEPT !.pc = "loop",
                                    !.item_status[ingest_run.position] = "SKIPPED",
                                    !.skipped_items = @ + 1,
                                    !.completed_items = @ + 1]
            [] ending = "exception" ->
                 [ingest_run EXCEPT !.pc = "loop",
                                    !.item_status[ingest_run.position] = "FAILED",
                                    !.failed_items = @ + 1]
            [] ending = "PyMongoError" ->
                 [ingest_run EXCEPT
                    !.pc = "ended",
                    !.ended = "raised",
                    !.job_status = "FAILED",
                    !.job_completed_items = ingest_run.completed_items,
                    !.job_failed_items = IF ingest_run.failed_items > 1
                                         THEN ingest_run.failed_items ELSE 1]
    /\ UNCHANGED <<kakao_lookup, feature_table, upsert_log, recrawl_filter>>
    /\ UNCHANGED not_store

\* Lines 566-594: after the last item the job gets its final status.
EndJob ==
    /\ ingest_run.pc = "loop"
    /\ ingest_run.position = ingest_run.total_items
    /\ LET final_status == _resolve_final_status(ingest_run.total_items,
                                                 ingest_run.completed_items,
                                                 ingest_run.failed_items)
       IN ingest_run' = [ingest_run EXCEPT
                           !.pc = "ended",
                           !.ended = final_status,
                           !.job_status = final_status,
                           !.job_completed_items = ingest_run.completed_items,
                           !.job_failed_items = ingest_run.failed_items]
    /\ UNCHANGED <<kakao_lookup, feature_table, upsert_log, recrawl_filter>>
    /\ UNCHANGED not_store

\* autoretry_for (lines 460-467): the task that raised a PyMongoError is
\* run again, at most max_retries times.
RetryTask ==
    /\ ingest_run.pc = "ended"
    /\ ingest_run.ended = "raised"
    /\ ingest_run.retries < MaxTaskRetries
    /\ ingest_run' = [ingest_run EXCEPT !.pc = "called", !.ended = NoneStr,
                                        !.retries = @ + 1]
    /\ UNCHANGED <<kakao_lookup, feature_table, upsert_log, recrawl_filter>>
    /\ UNCHANGED not_store

NextJob ==
    \/ BeginJob
    \/ BeginItem
    \/ \E ending \in ItemEndings : EndItem(ending)
    \/ EndJob
    \/ RetryTask

SpecJob == InitJob /\ [][NextJob]_vars

(***************************************************************************)
(* Properties of get_midpoint_hotplaces.                                   *)
(***************************************************************************)
\* The response get_midpoint_hotplaces holds is a cache hit.
IsHit == response # None /\ response.meta.cache_hit

\* The response is the one of a cache miss that resolved a station: the
\* fan-out has returned and the response is built.
IsAggregated ==
    /\ pc \in {"cache_write", "enqueue", "done"}
    /\ response # None
    /\ ~response.meta.cache_hit
    /\ response.meta.station_count > 0

\* C1: the expected call count is 1 + station_limit * keyword_count * pages
\* of the applied values, and a request whose expected calls exceed
\* MAX_KAKAO_CALLS_PER_REQUEST ends with HTTP 400 before any cache lookup
\* and without any directory call (no station search, no keyword search).
C1_BudgetGuard ==
    /\ expected_kakao_calls
          = 1 + applied_station_limit * Len(applied_keywords) * applied_pages
    /\ (pc # "idle" /\ expected_kakao_calls > max_kakao_calls_per_request) =>
          /\ pc = "done"
          /\ result = Raised(HTTP_400_BAD_REQUEST, FALSE, None)
          /\ response = None
          /\ cache_lookups = 0
          /\ redis_calls = 0
          /\ station_calls = 0
          /\ keyword_queries = <<>>
          /\ tasks = <<>>

\* A second request blocked by the guard, on an instance with a shared cache.
C1_Blocked ==
    /\ pc = "done"
    /\ served = 1
    /\ redis_client
    /\ expected_kakao_calls > max_kakao_calls_per_request
    /\ result.status_code = HTTP_400_BAD_REQUEST

\* A keyword search of the fan-out has raised.
AnyKeywordCallFailed == \E i \in 1..Len(tasks) : task_state[i] = "failed"

\* C2: once a keyword search of the fan-out has failed, the request never
\* returns a response; it ends by raising an error that carries the failure
\* and the all-or-nothing policy, with the status of the failure when it is
\* an HTTP error and 502 otherwise, and the station search has run once.
C2_AllOrNothing ==
    AnyKeywordCallFailed =>
        /\ pc \in {"gather", "done"}
        /\ response = None
        /\ result.kind # "returned"
        /\ station_calls = 1
        /\ pc = "done" =>
              /\ result.kind = "raised"
              /\ result.policy
              /\ result.cause = gather_exc
              /\ task_state[gather_exc.task] = "failed"
              /\ result.status_code = IF gather_exc.http THEN gather_exc.status_code
                                      ELSE HTTP_502_BAD_GATEWAY

\* The last keyword search failed with an HTTP 503 after every other search
\* had answered, and the request ended with 503.
C2_FailedAfterOthers ==
    /\ pc = "done"
    /\ AnyKeywordCallFailed
    /\ Len(keyword_queries) = NumKeywords
    /\ \A i \in 1..(NumKeywords - 1) : task_state[i] = "done"
    /\ result.status_code = HTTP_503_SERVICE_UNAVAILABLE

\* The store the last lookup or write of the request went to.
StoreOf(backend) == IF backend = "redis" THEN redis_store ELSE memory_cache

\* A hit made no directory call and says so.
HitMadeNoCall ==
    IsHit =>
        /\ pc = "done"
        /\ result = Returned
        /\ station_calls = 0
        /\ keyword_queries = <<>>
        /\ tasks = <<>>
        /\ response.meta.actual_kakao_api_call_count = 0
        /\ response.meta.kakao_api_call_count = 0
        /\ response.meta.executed_keyword_count = 0

\* The request follows, within the time to live, a request with the same
\* cache key that was a miss with a station, and its lookup was answered by
\* the store that took the write of that miss.
FollowsStoredMiss ==
    /\ last.kind = "miss"
    /\ cache_lookups = 1
    /\ cache_key = last.cache_key
    /\ now < last.at + CacheTtl
    /\ cache_backend = last.stored_in

\* C3 (as the code has it): a request whose lookup goes to a store holding
\* an unexpired entry for its cache key is served from the cache without
\* any directory call, with cache_hit = true and actual call count 0; the
\* first request of an instance is never a hit, and a request that follows,
\* within the time to live, a miss with a station for the same key is a hit
\* when its lookup is answered by the store that took the write.
C3_CacheHit ==
    /\ (pc = "stations" => StoreGet(StoreOf(cache_backend), cache_key, now) = None)
    /\ HitMadeNoCall
    /\ (served = 0 => ~IsHit)
    /\ (FollowsStoredMiss => IsHit)

\* The second of two identical requests one second apart is a hit served
\* by the shared cache.
C3_SecondIsHit ==
    /\ FollowsStoredMiss
    /\ IsHit
    /\ request = last.request
    /\ now = last.at + 1
    /\ response.meta.cache_backend = "redis"
    /\ response.hotplaces # <<>>

\* C3 as claimed: a request whose cache key has an unexpired entry (in the
\* shared or in the in-process store) is served from the cache with no
\* directory call, and the second of two identical consecutive successful
\* requests within the time to live is a hit.
C3_AsClaimed ==
    /\ (pc = "stations" =>
          /\ StoreGet(redis_store, cache_key, now) = None
          /\ StoreGet(memory_cache, cache_key, now) = None)
    /\ HitMadeNoCall
    /\ (served = 0 => ~IsHit)
    /\ ( /\ last.kind \in {"miss", "empty"}
         /\ request = last.request
         /\ now < last.at + CacheTtl
         /\ pc = "done"
         /\ result = Returned ) => IsHit

\* C4: whatever station_limit, pages and keywords the request carries, a
\* cache miss that resolves a station applies station_limit = 1, pages = 1
\* and the predefined keywords: one station search, one keyword search per
\* predefined keyword, and actual = expected = 1 + 57 = 58 calls.
C4_FixedFanout ==
    IsAggregated =>
        /\ station_calls = 1
        /\ Len(keyword_queries) = NumKeywords
        /\ \A keyword \in PREDEFINED_PLAY_KEYWORDS :
              Cardinality({i \in 1..Len(keyword_queries) :
                              keyword_queries[i] = keyword}) = 1
        /\ Len(response.chosen_stations) = 1
        /\ response.meta.station_limit = 1
        /\ response.meta.pages = 1
        /\ response.meta.keywords = [i \in 1..NumKeywords |-> i]
        /\ response.meta.keyword_request_count = NumKeywords
        /\ response.meta.actual_kakao_api_call_count = 58
        /\ response.meta.expected_kakao_api_call_count = 58
        /\ response.meta.kakao_api_call_count = 1 + NumKeywords

\* A request asking for two stations, two pages and its own keywords has
\* been aggregated.
C4_OverriddenRequest ==
    /\ IsAggregated
    /\ pc = "done"
    /\ request.station_limit = 2
    /\ request.pages = 2
    /\ request.keywords = "default"

\* The documents of keyword result i that make a hotplace with this id.
UsableWithId(i, id) ==
    {d \in 1..Len(keyword_results[i][3]) :
        /\ keyword_results[i][3][d].id = id
        /\ _build_hotplace(keyword_results[i][3][d], keyword_results[i][1],
                           keyword_results[i][2]) # None}

\* The keyword results, in the order gather returns them, holding this id.
ResultsWithId(id) == {i \in 1..Len(keyword_results) : UsableWithId(i, id) # {}}

Least(S) == CHOOSE n \in S : \A m \in S : n <= m

UniqueIds(hotplaces) ==
    \A i, j \in 1..Len(hotplaces) :
        hotplaces[i].kakao_place_id = hotplaces[j].kakao_place_id => i = j

\* C5: no two hotplaces of a response share a kakao_place_id, and a
\* hotplace whose id occurs in several keyword results (or several times in
\* one) is the first occurrence: it carries the source_station and the
\* source_keyword of the first result holding the id, and the name of the
\* first document with the id in that result.
C5_FirstSeenWins ==
    /\ (response # None => UniqueIds(response.hotplaces))
    /\ IsAggregated =>
          /\ \A h \in 1..Len(response.hotplaces) :
                LET id == response.hotplaces[h].kakao_place_id
                    first == Least(ResultsWithId(id))
                    doc == keyword_results[first][3][Least(UsableWithId(first, id))]
                IN /\ ResultsWithId(id) # {}
                   /\ response.hotplaces[h].source_station = keyword_results[first][1]
                   /\ response.hotplaces[h].source_keyword = keyword_results[first][2]
                   /\ response.hotplaces[h].place_name = doc.place_name
          /\ \A i \in 1..Len(keyword_results) :
                \A d \in 1..Len(keyword_results[i][3]) :
                    UsableWithId(i, keyword_results[i][3][d].id) # {}
                        => HasId(response.hotplaces, keyword_results[i][3][d].id)

\* A response whose hotplace occurs twice in the first keyword result and
\* once more in the last one.
C5_DuplicateDropped ==
    /\ IsAggregated
    /\ pc = "done"
    /\ \E id \in {DocA.id} :
          /\ Cardinality(ResultsWithId(id)) = 2
          /\ Cardinality(UsableWithId(Least(ResultsWithId(id)), id)) = 2
          /\ HasId(response.hotplaces, id)
    /\ Len(response.hotplaces) = 2

\* The payload a cache miss stores: the response as it is before the cache
\* write names the backend that took it.
StoredAs(resp, payload) ==
    /\ payload.hotplaces = resp.hotplaces
    /\ payload.chosen_stations = resp.chosen_stations
    /\ [payload.meta EXCEPT !.cache_backend = resp.meta.cache_backend] = resp.meta

\* C6 (as the code has it): a cache miss that resolves a station and ends
\* without error has written its response under its cache key, with the
\* configured time to live, to the store it names (the shared one, or the
\* in-process one after a demotion) before get_midpoint_hotplaces returns;
\* the entry is there for the whole time to live, and a request with the
\* same key within it is a hit when its lookup is answered by that store.
C6_CacheWrite ==
    /\ (IsAggregated /\ pc \in {"enqueue", "done"}) =>
          LET store == StoreOf(response.meta.cache_backend) IN
          /\ cache_key \in DOMAIN store
          /\ store[cache_key][1] = now + CacheTtl
          /\ StoredAs(response, store[cache_key][2])
    /\ (pc = "idle" /\ last.kind = "miss" /\ now < last.at + CacheTtl) =>
          StoreGet(StoreOf(last.stored_in), last.cache_key, now) # None
    /\ (FollowsStoredMiss => IsHit /\ pc = "done")

\* A miss has stored its response in the in-process store of an instance
\* whose shared cache failed at the write, and is about to return.
C6_WrittenBeforeReturn ==
    /\ IsAggregated
    /\ pc = "enqueue"
    /\ redis_client
    /\ redis_calls = 2
    /\ response.meta.cache_backend = "memory"
    /\ cache_key \in DOMAIN memory_cache
    /\ response.hotplaces # <<>>

\* C6 as claimed: every cache miss that ends without error has written its
\* response to the cache with the time to live by the time it returns, and
\* an identical request after it within the time to live is a hit.
C6_AsClaimed ==
    /\ (pc = "done" /\ result = Returned /\ ~IsHit) =>
          \E backend \in {"redis", "memory"} :
              /\ cache_key \in DOMAIN StoreOf(backend)
              /\ StoreOf(backend)[cache_key][1] = now + CacheTtl
    /\ ( /\ last.kind \in {"miss", "empty"}
         /\ request = last.request
         /\ now < last.at + CacheTtl
         /\ cache_lookups = 1 ) => IsHit

\* The station search answered without any document carrying both a name
\* and an identifier.
NoUsableStation ==
    /\ station_docs.answered
    /\ \A i \in 1..Len(station_docs.documents) :
          \/ station_docs.documents[i].place_name = ""
          \/ station_docs.documents[i].id = 0

\* C7: when the station search yields no station with a usable name and
\* identifier, get_midpoint_hotplaces returns (raises nothing) an empty
\* result: no station, no hotplace, one directory call, no keyword search.
C7_ZeroAnchors ==
    NoUsableStation =>
        /\ pc = "done"
        /\ result = Returned
        /\ response # None
        /\ response.chosen_stations = <<>>
        /\ response.hotplaces = <<>>
        /\ response.meta.station_count = 0
        /\ response.meta.hotplace_count = 0
        /\ response.meta.cache_hit = FALSE
        /\ response.meta.actual_kakao_api_call_count = 1
        /\ response.meta.kakao_api_call_count = 1
        /\ response.meta.keyword_request_count = 0
        /\ station_calls = 1
        /\ keyword_queries = <<>>
        /\ tasks = <<>>

\* The station search answered one document, which has a name and no id.
C7_UnusableDocument ==
    /\ NoUsableStation
    /\ Len(station_docs.documents) = 1
    /\ station_docs.documents[1].place_name # ""
    /\ pc = "done"

\* Two requests agree on what the cache key is meant to tell apart: the
\* participants' rounded coordinates as numbers, in any order, the radii,
\* the size and the normalized weather key.
RoundedParticipants(req) ==
    [i \in 1..Len(req.participants) |->
        << FloatValue(Round4(req.participants[i][1])),
           FloatValue(Round4(req.participants[i][2])) >>]

SameBag(s, t) ==
    /\ Len(s) = Len(t)
    /\ \A i \in 1..Len(s) :
          Cardinality({j \in 1..Len(s) : s[j] = s[i]})
              = Cardinality({j \in 1..Len(t) : t[j] = s[i]})

SameSemanticInputs(r1, r2) ==
    /\ SameBag(RoundedParticipants(r1), RoundedParticipants(r2))
    /\ r1.station_radius = r2.station_radius
    /\ r1.place_radius = r2.place_radius
    /\ r1.size = r2.size
    /\ _normalize_weather_key(r1.weather_key) = _normalize_weather_key(r2.weather_key)

\* C8 as claimed: two requests get the same cache key when, and only when,
\* they agree on the rounded coordinates of the participants (in any
\* order), station_radius, place_radius, size and the normalized weather
\* key, whatever station_limit, pages and keywords they carry.
C8_KeyTellsSemanticInputs ==
    (pc = "lookup" /\ served = 1) =>
        ((cache_key = last.cache_key) <=> SameSemanticInputs(request, last.request))

\* C9: once a lookup or a write against the shared cache raises, the call
\* is completed against the in-process store and the instance is demoted;
\* a demoted instance stays demoted and never calls the shared cache again.
C9_OneWayDemotion ==
    [][ /\ ~redis_enabled => (~redis_enabled' /\ redis_calls' <= redis_calls
                               /\ redis_store' = redis_store)
        /\ (redis_calls' > redis_calls /\ cache_backend' = "memory") =>
              /\ redis_enabled
              /\ ~redis_enabled'
              /\ redis_store' = redis_store
              /\ pc = "cache_write" =>
                    /\ cache_key \in DOMAIN memory_cache'
                    /\ memory_cache'[cache_key] = <<now + CacheTtl, response>>
                    /\ response'.meta.cache_backend = "memory"
              /\ pc = "lookup" =>
                    (pc' = "done" <=> StoreGet(memory_cache, cache_key, now) # None)
      ]_vars

\* On an instance with a shared cache the lookup raised, and the write of
\* the same request went to the in-process store without a call to the
\* shared one.
C9_DemotedAtLookup ==
    /\ redis_client
    /\ ~redis_enabled
    /\ pc = "enqueue"
    /\ redis_calls = 1
    /\ cache_backend = "memory"
    /\ cache_key \in DOMAIN memory_cache
    /\ served = 1

\* C10: with ingestion enqueue enabled, when creating or enqueuing the job
\* raises (no job exists after the request), get_midpoint_hotplaces still
\* returns, the response is the one computed from the keyword results (same
\* hotplaces, same call counts), and the enqueue was attempted once.
C10_EnqueueFailure ==
    ( /\ pc = "done"
      /\ enable_ingestion_enqueue
      /\ IsAggregated
      /\ response.hotplaces # <<>>
      /\ ingestion_jobs = 0 ) =>
        /\ result = Returned
        /\ enqueue_calls = 1
        /\ response.hotplaces
              = _rank_hotplaces(
                    _attach_hotplace_features(deduped_hotplaces(keyword_results)),
                    request)
        /\ response.chosen_stations = chosen_stations
        /\ response.meta.hotplace_count = Len(response.hotplaces)
        /\ response.meta.actual_kakao_api_call_count = 1 + Len(tasks)
        /\ response.meta.kakao_api_call_count = station_calls + Len(keyword_queries)
        /\ response.meta.cache_hit = FALSE

\* The enqueue raised and the request returned two hotplaces.
C10_EnqueueRaised ==
    /\ pc = "done"
    /\ enable_ingestion_enqueue
    /\ IsAggregated
    /\ Len(response.hotplaces) = 2
    /\ enqueue_calls = 1
    /\ ingestion_jobs = 0
    /\ result = Returned

(***************************************************************************)
(* Properties of feature attachment and ranking (SpecRanking).             *)
(***************************************************************************)
\* _rank_hotplaces has returned the ranking of the batch.
IsRanked == rank_pc \in {"ranked", "reranked"}

IdsOf(hotplaces) == {hotplaces[i].kakao_place_id : i \in 1..Len(hotplaces)}

\* C11: Zero-rating exclusion.  Whenever the batch handed to _rank_hotplaces
\* holds a candidate with a positive rating, the ranked output holds no
\* candidate whose rating is exactly 0: such a candidate is dropped, not
\* ranked last.  _rank_hotplaces ranks every candidate it is given, so the
\* batch <<rating 0.0 with 120 ratings, rating 4.1 with 40 ratings>> comes
\* back with both, the zero-rated one first.
C11_ZeroRatedExcluded ==
    (IsRanked /\ \E i \in 1..Len(enriched) : enriched[i].naver_rating # NoneInt
                                              /\ enriched[i].naver_rating > 0)
        => \A i \in 1..Len(ranked_hotplaces) : ranked_hotplaces[i].naver_rating # 0

\* The order of the ranked output, level by level: final score descending,
\* rating count descending (none counts as 0), directory distance ascending
\* with missing distances last, identifier ascending.
RankedBefore(a, b) ==
    IF a.ranking_score # b.ranking_score THEN a.ranking_score > b.ranking_score
    ELSE IF NoneAsZero(a.naver_rating_count) # NoneAsZero(b.naver_rating_count)
         THEN NoneAsZero(a.naver_rating_count) > NoneAsZero(b.naver_rating_count)
    ELSE IF a.distance # b.distance
         THEN b.distance = NoneInt \/ (a.distance # NoneInt /\ a.distance < b.distance)
    ELSE a.kakao_place_id < b.kakao_place_id

\* The orders in which a sequence of n elements can be presented.
Orders(n) == {f \in [1..n -> 1..n] : \A i, j \in 1..n : i # j => f[i] # f[j]}

\* C12: Ranking order.  The ranked output is ordered by the 4-level key
\* (final score descending, rating count descending, directory distance
\* ascending with missing distances last, identifier ascending); the
\* identifiers being unique, the same candidates presented in any order, and
\* the ranked output ranked again, give the identical sequence.
C12_RankingOrder ==
    IsRanked =>
        /\ \A i, j \in 1..Len(ranked_hotplaces) :
              i < j => RankedBefore(ranked_hotplaces[i], ranked_hotplaces[j])
        /\ \A f \in Orders(Len(ranked_hotplaces)) :
              _rank_hotplaces([i \in 1..Len(ranked_hotplaces) |-> ranked_hotplaces[f[i]]],
                              rank_request) = ranked_hotplaces
        /\ rank_pc = "ranked" =>
              /\ IdsOf(ranked_hotplaces) = IdsOf(enriched)
              /\ \A f \in Orders(Len(enriched)) :
                    _rank_hotplaces([i \in 1..Len(enriched) |-> enriched[f[i]]],
                                    rank_request) = ranked_hotplaces

\* Three unrated candidates came in another order than they leave in: the
\* two at the same distance are told apart by identifier, the one without a
\* distance is last.
C12_TiesBroken ==
    /\ rank_pc = "ranked"
    /\ Len(candidates) = 3
    /\ candidates[1].kakao_place_id = 77
    /\ candidates[2].kakao_place_id = 88
    /\ [i \in 1..Len(ranked_hotplaces) |-> ranked_hotplaces[i].kakao_place_id] = <<66, 88, 77>>

\* Two ranked hotplaces that differ in nothing but identifier, rating and
\* rating count.
OtherwiseEqual(a, b) ==
    /\ a.x = b.x /\ a.y = b.y
    /\ a.distance = b.distance
    /\ a.source_station = b.source_station
    /\ a.source_keyword = b.source_keyword

\* C17: Confidence dominates rating.  Under neutral weather (no weather
\* key), a candidate rated 4.9 by 5 ratings gets a lower final score than
\* an otherwise equal candidate rated 4.2 by 2000 ratings, and is ranked
\* after it.
C17_CountOutweighsRating ==
    (IsRanked /\ _normalize_weather_key(rank_request.weather_key) = NoneStr) =>
        \A i, j \in 1..Len(ranked_hotplaces) :
            ( /\ ranked_hotplaces[i].naver_rating = 490
              /\ ranked_hotplaces[i].naver_rating_count = 5
              /\ ranked_hotplaces[j].naver_rating = 420
              /\ ranked_hotplaces[j].naver_rating_count = 2000
              /\ OtherwiseEqual(ranked_hotplaces[i], ranked_hotplaces[j]) )
            => /\ ranked_hotplaces[i].ranking_score < ranked_hotplaces[j].ranking_score
               /\ j < i

\* The two candidates came in with the one rated 4.9 first and were ranked
\* under neutral weather: scores 0.5733 and 0.1887.
C17_BothRanked ==
    /\ rank_pc = "ranked"
    /\ rank_request.weather_key = NoneStr
    /\ Len(enriched) = 2
    /\ enriched[1].naver_rating = 490 /\ enriched[1].naver_rating_count = 5
    /\ enriched[2].naver_rating = 420 /\ enriched[2].naver_rating_count = 2000
    /\ [i \in 1..Len(ranked_hotplaces) |-> ranked_hotplaces[i].ranking_score] = <<5733, 1887>>

\* _attach_hotplace_features has returned.
IsAttached == rank_pc \in {"attached", "ranked", "reranked"}

\* The feature store holds a record of the place whose mapping reason or
\* photo-collection reason is one of the two hiding reasons.
HasHidingRecord(kakao_place_id) ==
    /\ kakao_place_id \in DOMAIN feature_rows
    /\ \/ _extract_mapping_reason_from_feature_payload(feature_rows[kakao_place_id])
              \in {"no_candidates", "low_confidence"}
       \/ _extract_photo_collection_status_from_feature_payload(feature_rows[kakao_place_id])
              \in {"no_candidates", "low_confidence"}

\* The hotplace of the batch is in what feature attachment returned, and
\* in the ranked output once there is one.
Shown(kakao_place_id) ==
    /\ kakao_place_id \in IdsOf(enriched)
    /\ IsRanked => kakao_place_id \in IdsOf(ranked_hotplaces)

Hidden(kakao_place_id) ==
    /\ kakao_place_id \notin IdsOf(enriched)
    /\ IsRanked => kakao_place_id \notin IdsOf(ranked_hotplaces)

\* C20: Hiding by mapping issue.  When the feature map was loaded (a
\* session is given and the query succeeds), feature attachment removes
\* every hotplace whose record has a mapping reason or photo-collection
\* reason in {no_candidates, low_confidence}, and the hotplace is in no
\* ranked output; every other hotplace of the batch is kept: one with
\* another reason, one without a record, and, without a session or when the
\* query raises, every hotplace whatever its record says.
C20_HiddenWhenLoaded ==
    IsAttached =>
        \A i \in 1..Len(candidates) :
            IF session = "ok" /\ HasHidingRecord(candidates[i].kakao_place_id)
            THEN Hidden(candidates[i].kakao_place_id)
            ELSE Shown(candidates[i].kakao_place_id)

\* The batch held a hotplace mapped with low confidence, one whose crawl
\* was skipped for no_candidates and one with a search_error; the feature
\* map was loaded and only the last one is ranked.
C20_TwoHidden ==
    /\ rank_pc = "ranked"
    /\ session = "ok"
    /\ feature_rows = RowsHiding
    /\ [i \in 1..Len(candidates) |-> candidates[i].kakao_place_id] = <<11, 55, 33>>
    /\ [i \in 1..Len(ranked_hotplaces) |-> ranked_hotplaces[i].kakao_place_id] = <<55>>

\* C20 as stated: whatever became of the query, a hotplace with a hiding
\* record is removed and never ranked, every other one is kept.
C20_AsClaimed ==
    IsAttached =>
        \A i \in 1..Len(candidates) :
            IF HasHidingRecord(candidates[i].kakao_place_id)
            THEN Hidden(candidates[i].kakao_place_id)
            ELSE Shown(candidates[i].kakao_place_id)

(***************************************************************************)
(* Properties of the crawler (SpecCrawl).                                  *)
(***************************************************************************)
\* A channel is in its loop, or has just left it.
InLoop == crawl_pc = "loop" /\ stop_reason # "open_failed"

\* Extraction i (the first one is the baseline) did not raise the
\* deduplicated count above every count seen before it.
NonGrowing(i) == i >= 2 /\ \E j \in 1..(i - 1) : counts[j] >= counts[i]

\* The number of non-growing iterations at the end of the channel's history.
StallStreak ==
    CHOOSE n \in 0..Len(counts) :
        /\ \A i \in (Len(counts) - n + 1)..Len(counts) : NonGrowing(i)
        /\ n < Len(counts) => ~NonGrowing(Len(counts) - n)

\* C13: Stall detection.  With no-growth limit N, a channel's loop stops
\* with the N-th consecutive iteration that fails to grow the deduplicated
\* count, and for that reason whatever the ceiling is: the streak never
\* exceeds N, and it is N exactly when the loop stopped for no growth.  When
\* no expansion grew the count at all, the loop stopped after N expansions,
\* N + 1 iterations with the one that took the baseline.
C13_StallStops ==
    InLoop =>
        /\ StallStreak <= crawl_config.no_growth_limit
        /\ StallStreak = crawl_config.no_growth_limit <=> stop_reason = "no_growth"
        /\ stop_reason = "no_growth" /\ StallStreak = Len(counts) - 1 =>
              /\ click_index = crawl_config.no_growth_limit
              /\ Len(counts) = crawl_config.no_growth_limit + 1

\* The photos channel, limit 2 under a ceiling of 3: the baseline found one
\* photo, two scrolls found no other, and the loop stopped for no growth.
C13_StoppedByStall ==
    /\ channel = "photos"
    /\ crawl_config.no_growth_limit = 2
    /\ crawl_config.photo_max_scrolls = 3
    /\ counts = <<1, 1, 1>>
    /\ click_index = 2
    /\ stop_reason = "no_growth"

\* The crawl has returned after running its channels.
ChannelsRan == crawl_pc = "done" /\ browser_session.state = "closed"

Contains(seq, x) == \E i \in 1..Len(seq) : seq[i] = x

\* What the bundle says once the channels ran: PARTIAL exactly when a
\* channel raised, with the warnings of the channels that raised, and
\* nothing from a channel that raised.
BundleOfChannels ==
    /\ crawl_result.status \in {"COMPLETED", "PARTIAL"}
    /\ crawl_result.status = "PARTIAL" <=> warnings # <<>>
    /\ crawl_result.warnings = warnings
    /\ Contains(warnings, "review_error") =>
          crawl_result.reviews = <<>> /\ ~crawl_result.rating_summary
    /\ Contains(warnings, "photo_error") => crawl_result.photos = <<>>

\* However the reviews channel ends, the photos channel is opened next;
\* while the photos channel runs and when it ends, returning or raising,
\* the reviews and the rating summary in the bundle stay as they are.
ChannelsIsolated ==
    /\ channel = "reviews" /\ channel' # "reviews" =>
          channel' = "photos" /\ crawl_pc' = "open"
    /\ channel = "photos" =>
          /\ crawl_result'.reviews = crawl_result.reviews
          /\ crawl_result'.rating_summary = crawl_result.rating_summary

\* C15: Channel isolation.  An exception in the reviews channel does not
\* keep the photos channel from running, and an exception in the photos
\* channel does not discard the reviews collected.  Once a browser session
\* exists the crawl returns COMPLETED or PARTIAL, never FAILED: PARTIAL
\* exactly when a channel raised, with one warning per channel that raised.
\* A crawl that returns before its channels run is SKIPPED, and the one
\* whose browser session cannot be created carries a crawler_error warning.
C15_ChannelIsolation ==
    /\ [](ChannelsRan => BundleOfChannels)
    /\ [](crawl_pc = "done" /\ ~ChannelsRan =>
             /\ crawl_result.status = "SKIPPED"
             /\ crawl_result.warnings \in {<<>>, <<"crawler_error">>})
    /\ [][ChannelsIsolated]_vars

\* The reviews channel raised, the photos channel then collected two
\* photos, and the crawl returned PARTIAL with the one warning.
C15_PhotosAfterReviewError ==
    /\ crawl_pc = "done"
    /\ crawl_result.status = "PARTIAL"
    /\ crawl_result.warnings = <<"review_error">>
    /\ crawl_result.reviews = <<>>
    /\ Len(crawl_result.photos) = 2

\* C15 as stated, on the returned bundle: the status is never FAILED and
\* is PARTIAL exactly when the bundle's warning list is non-empty.
C15_AsClaimed ==
    crawl_pc = "done" =>
        /\ crawl_result.status # "FAILED"
        /\ crawl_result.status = "PARTIAL" <=> crawl_result.warnings # <<>>

(***************************************************************************)
(* Properties of photo deduplication (SpecDedupe).                         *)
(***************************************************************************)
\* The URL is a proxy wrapper around an origin image.
IsWrapped(url) == url.host = "search.pstatic.net" /\ url.path = "/common/" /\ url.src # None

\* What a URL is canonically: the origin image a proxy URL wraps, else the
\* URL without query string and fragment.
Canonical(url) ==
    IF IsWrapped(url) THEN [url.src EXCEPT !.padded = FALSE]
    ELSE Url(url.host, url.path, "", "", None, FALSE)

\* The input photos that have a URL.
WithUrl == {i \in 1..Len(photo_input) : ~IsBlankUrl(photo_input[i].image_url)}

\* C19: Photo deduplication.  The photos kept are one per canonical key of
\* the input, in order of first appearance: two proxy URLs that unwrap to
\* the same origin image are one photo whose image_url is the origin URL,
\* two URLs that differ only in query string or fragment are one photo, and
\* a photo without a URL is dropped.
C19_OnePhotoPerKey ==
    dedupe_pc = "deduped" =>
        /\ \A i, j \in 1..Len(photo_output) :
              i # j => photo_output[i].image_url # photo_output[j].image_url
        /\ {photo_output[i].image_url : i \in 1..Len(photo_output)}
              = {c \in {Canonical(photo_input[i].image_url) : i \in WithUrl} : ~IsBlankUrl(c)}
        /\ \A i, j \in 1..Len(photo_output) :
              i < j => \E m \in WithUrl :
                  /\ Canonical(photo_input[m].image_url) = photo_output[i].image_url
                  /\ \A n \in WithUrl :
                        Canonical(photo_input[n].image_url) = photo_output[j].image_url => m < n

\* Two proxy URLs around the same origin image, with a photo without a URL
\* between them, gave one photo: the origin image.
C19_ProxiesUnwrapped ==
    /\ dedupe_pc = "deduped"
    /\ photo_input = <<Photo(ProxyF), Photo(BlankUrl), Photo(ProxyG)>>
    /\ photo_output = <<Photo(OriginAbc)>>

(***************************************************************************)
(* Properties of the entity resolver (SpecMapping).                        *)
(***************************************************************************)
\* resolve_naver_place_mapping has returned its payload.
HasResolved == mapping_pc = "returned"

\* The payload is a structured unresolved mapping.
IsUnresolved ==
    /\ mapping_payload.status = "SKIPPED"
    /\ ~mapping_payload.crawlable
    /\ mapping_payload.naver_place_id = NoneStr

NameMissing == place_name = NoneStr \/ place_name = "  "

\* The search returned and its candidates were scored.
SearchRan == HasResolved /\ ~NameMissing /\ mapping_payload.reason # "search_error"

\* The scored candidates, best first.
ScoredFound == SortScored(ScoreCandidates(found))

\* The top pair of the scored candidates is ambiguous: confidences within
\* 0.08, no distance on either, region score below 0.34 on both.
TopPairAmbiguous ==
    /\ Len(ScoredFound) >= 2
    /\ ScoredFound[1].confidence - ScoredFound[2].confidence < 800
    /\ ScoredFound[1].distance_m = NoneInt /\ ScoredFound[2].distance_m = NoneInt
    /\ ScoredFound[1].region_score < 3400 /\ ScoredFound[2].region_score < 3400

\* C14: The resolver never raises.  Whatever happens (a missing name, no
\* scored candidate, an ambiguous top pair, a confidence below the floor, an
\* exception in the lookup, the browser session or the search), it returns
\* a payload; unless a candidate is mapped the payload is unresolved
\* (SKIPPED, not crawlable, no target id) with the reason of its case:
\* missing_place_name, no_candidates, ambiguous_candidates, low_confidence
\* or search_error.
C14_StructuredFailure ==
    HasResolved =>
        /\ mapping_payload.status = "MAPPED" \/ IsUnresolved
        /\ IsUnresolved => mapping_payload.reason \in
              {"missing_place_name", "no_candidates", "ambiguous_candidates",
               "low_confidence", "search_error"}
        /\ NameMissing => IsUnresolved /\ mapping_payload.reason = "missing_place_name"
        /\ mapping_payload.reason = "search_error" => IsUnresolved /\ ~NameMissing
        /\ SearchRan /\ ScoredFound = <<>> =>
              IsUnresolved /\ mapping_payload.reason = "no_candidates"
        /\ SearchRan /\ TopPairAmbiguous =>
              IsUnresolved /\ mapping_payload.reason = "ambiguous_candidates"
        /\ SearchRan /\ ScoredFound # <<>> /\ ~TopPairAmbiguous
              /\ ScoredFound[1].confidence < 5000 =>
              IsUnresolved /\ mapping_payload.reason = "low_confidence"
        /\ mapping_session.state # "open"

\* The search raised after the browser session was opened: the payload is
\* unresolved with reason search_error and the session is closed.
C14_SearchRaised ==
    /\ HasResolved
    /\ mapping_session.state = "closed"
    /\ IsUnresolved
    /\ mapping_payload.reason = "search_error"

\* C14 as stated: the reason of an unresolved mapping is one of
\* missing_name, no_candidates, ambiguous_candidates, low_confidence,
\* search_error.
C14_AsClaimed ==
    HasResolved /\ IsUnresolved =>
        mapping_payload.reason \in
            {"missing_name", "no_candidates", "ambiguous_candidates", "low_confidence",
             "search_error"}

\* C16: Ambiguity rule.  With at least two scored candidates whose top two
\* confidences are within 0.08, neither of which has a distance nor a region
\* score of 0.34 or more, no candidate is selected and the reason is
\* ambiguous_candidates; in every other case with a scored candidate the
\* top-scored candidate is the one selected (mapped, or reported with
\* low_confidence below the floor).
C16_AmbiguityRule ==
    SearchRan /\ ScoredFound # <<>> =>
        /\ \A i \in 1..Len(ScoredFound) : ScoredFound[i].confidence <= ScoredFound[1].confidence
        /\ IF TopPairAmbiguous
           THEN /\ mapping_payload.reason = "ambiguous_candidates"
                /\ mapping_payload.naver_place_id = NoneStr
                /\ mapping_payload.matched_name = NoneStr
           ELSE /\ mapping_payload.reason \in {NoneStr, "low_confidence"}
                /\ mapping_payload.matched_name = ScoredFound[1].matched_name
                /\ mapping_payload.confidence = ScoredFound[1].confidence
                /\ mapping_payload.reason = NoneStr =>
                      mapping_payload.naver_place_id = ScoredFound[1].naver_place_id

\* Two candidates 0.039 apart, without distance or region overlap: none is
\* selected.
C16_RejectedAsAmbiguous ==
    /\ HasResolved
    /\ [i \in 1..Len(found) |-> found[i].naver_place_id] = <<"n2", "n1">>
    /\ mapping_payload.reason = "ambiguous_candidates"
    /\ mapping_payload.candidate_count = 2

(***************************************************************************)
(* Properties of the ingestion trigger (SpecIngest).                       *)
(***************************************************************************)
\* The job row a message names, if it is committed.
IsPersisted(args) == \E j \in 1..Len(job_table) : ToString(job_table[j].id) = args

MessagesFor(args) == {i \in 1..Len(broker_queue) : broker_queue[i].args = args}

PersistFailed(c) == ingest_outcome[c].error = "SQLAlchemyError"

\* What holds of the table, the broker and the calls in every state.
EnqueuedOncePerReturnedJob ==
    /\ \A i \in 1..Len(broker_queue) :
          /\ broker_queue[i].task = "tasks.ingest_job"
          /\ IsPersisted(broker_queue[i].args)
          /\ MessagesFor(broker_queue[i].args) = {i}
    /\ Len(broker_queue) = Cardinality({c \in Calls : ingest_pc[c] = "returned"})
    /\ \A c \in Calls :
          /\ ingest_pc[c] = "returned" =>
                /\ ingest_outcome[c] = CallReturned(ingest_job_id[c])
                /\ Cardinality(MessagesFor(ToString(ingest_job_id[c]))) = 1
                /\ \A d \in Calls \ {c} : ingest_job_id[d] # ingest_job_id[c]
          /\ ingest_pc[c] # "returned" => MessagesFor(ToString(ingest_job_id[c])) = {}
          /\ PersistFailed(c) =>
                /\ ingest_pc[c] = "raised"
                /\ ingest_outcome[c].kind = "raised"
                /\ ingest_job_id[c] = NoneInt

\* A step that sends a message sends one, for a job committed before the
\* step.
EnqueueFollowsPersist ==
    broker_queue' # broker_queue =>
        /\ Len(broker_queue') = Len(broker_queue) + 1
        /\ SubSeq(broker_queue', 1, Len(broker_queue)) = broker_queue
        /\ IsPersisted(broker_queue'[Len(broker_queue')].args)

\* C18: create_ingestion_job_from_hotplaces sends tasks.ingest_job exactly
\* once, only after the job is committed, with the committed job's
\* identifier as its argument, and returns that identifier; when persisting
\* the job fails nothing is sent and the error is raised to the caller.
C18_EnqueueAfterPersist == []EnqueuedOncePerReturnedJob /\ [][EnqueueFollowsPersist]_vars

\* One call returned its job's identifier after the other's persist raised
\* with the row already committed: two rows, one message.
C18_OneReturnedOneFailed ==
    /\ \E c \in Calls : ingest_pc[c] = "returned" /\ IsPersisted(ToString(ingest_outcome[c].job_id))
    /\ \E c \in Calls : PersistFailed(c)
    /\ Len(job_table) = 2
    /\ Len(broker_queue) = 1

(***************************************************************************)
(* Properties of the keyword fan-out (SpecFanout).                         *)
(***************************************************************************)
\* The fan-out of the request being served has begun.
FanoutBegun == tasks # <<>>

\* C23: During the keyword fan-out at most keyword_concurrency calls of
\* search_places_by_keyword are in flight, keyword_concurrency is never
\* below 1 (8 when the variable is unset or no integer), and every call that
\* returned or raised has given its permit back: the free permits and the
\* calls in flight add up to keyword_concurrency.
C23_BoundedInFlight ==
    /\ keyword_concurrency >= 1
    /\ _get_int_env(NoneStr, DEFAULT_KEYWORD_CONCURRENCY, 1) = 8
    /\ _get_int_env("abc", DEFAULT_KEYWORD_CONCURRENCY, 1) = 8
    /\ Cardinality(InFlight) <= keyword_concurrency
    /\ semaphore >= 0
    /\ FanoutBegun => semaphore + Cardinality(InFlight) = keyword_concurrency

\* Two permits, both taken again after one call has failed, and calls still
\* waiting.
C23_BothPermitsTaken ==
    /\ keyword_concurrency = 2
    /\ Cardinality(InFlight) = 2
    /\ Waiting # {}
    /\ \E i \in 1..Len(tasks) : task_state[i] = "failed"

\* C24: get_midpoint_hotplaces has neither returned nor raised, and the
\* request's HTTP client is not closed, while a spawned keyword-search call
\* is waiting or in flight.
C24_AwaitsAll ==
    (FanoutBegun /\ (pc = "done" \/ ~client_open)) => Settled

\* C25: once a keyword search has failed no further call is issued to the
\* directory, and the error handed to the caller is that first error.
C25_StopsScheduling ==
    /\ [](pc = "done" /\ gather_exc # None => result.cause = gather_exc)
    /\ [][gather_exc # None => Len(keyword_queries') <= Len(keyword_queries)]_vars

(***************************************************************************)
(* Properties of _NoGrowthGuard (SpecGuard).                               *)
(***************************************************************************)
MaxOf(S) == CHOOSE n \in S : \A m \in S : m <= n

\* The high-water mark after the first i entries of counts (the baseline
\* and i - 1 observations); the mark starts at 0 or above.
HighWater(i) == MaxOf({0} \cup {counts[j] : j \in 1..i})

\* Observation i did not exceed the high-water mark before it.
Stalled(i) == i >= 2 /\ counts[i] <= HighWater(i - 1)

\* The number of consecutive observations, up to the last one, that did not
\* exceed the high-water mark.
ObservedStreak ==
    CHOOSE n \in 0..(Len(counts) - 1) :
        /\ \A i \in (Len(counts) - n + 1)..Len(counts) : Stalled(i)
        /\ ~Stalled(Len(counts) - n)

EffectiveLimit ==
    IF crawl_config.no_growth_limit < 1 THEN 1 ELSE crawl_config.no_growth_limit

GuardTracksHistory ==
    crawl_pc = "guard" =>
        /\ guard.limit = EffectiveLimit
        /\ guard.last_count = HighWater(Len(counts))
        /\ guard.streak = ObservedStreak
        /\ Len(counts) >= 2 =>
              (stop_reason = "no_growth" <=> ObservedStreak >= EffectiveLimit)
        /\ Len(counts) >= 2 /\ ~Stalled(Len(counts)) =>
              guard.last_count = counts[Len(counts)] /\ guard.streak = 0

\* C26: For any sequence of observations, observe returns true exactly when
\* the number of consecutive observations that did not exceed the high-water
\* mark has reached the limit; an observation above the mark raises the mark
\* to that count and resets the streak to 0; the mark never decreases; a
\* limit below 1 behaves as 1.
C26_GuardContract ==
    []GuardTracksHistory /\ [][guard'.last_count >= guard.last_count]_vars

\* The guard of the unit test two counts lower: limit 2, baseline 2, and
\* the observations 2, 2, 3, 3, 3 answered false, true, false, false, true.
C26_StopsResetsStops ==
    /\ crawl_pc = "guard"
    /\ crawl_config.no_growth_limit = 2
    /\ counts = <<2, 2, 2, 3, 3, 3>>
    /\ stop_reason = "no_growth"
    /\ guard.streak = 2

(***************************************************************************)
(* The iteration ceiling of a channel (SpecCrawl).                         *)
(***************************************************************************)
\* The channel's loop is still running in both states of the step.
LoopStep == crawl_pc = "loop" /\ crawl_pc' = "loop"

\* What holds of a channel's loop in every state: the expansions begun never
\* exceed the ceiling, a loop that may go on is below it, and every
\* expansion but a failed last one was followed by an extraction.
WithinCeiling ==
    InLoop =>
        /\ click_index <= Ceiling(channel)
        /\ stop_reason = "none" => click_index < Ceiling(channel)
        /\ Len(counts) = 1 + click_index - (IF stop_reason = "unavailable" THEN 1 ELSE 0)
        /\ counts[Len(counts)] = Len(collected)

\* An iteration: only a running loop expands, one expansion at a time; a
\* failed click or scroll extracts nothing and ends the loop; a successful
\* one extracts again and merges, keeping what was collected.
ExpandsAndMerges ==
    LoopStep /\ click_index' # click_index =>
        /\ stop_reason = "none"
        /\ click_index' = click_index + 1
        /\ IF stop_reason' = "unavailable"
           THEN collected' = collected /\ counts' = counts
           ELSE /\ Len(counts') = Len(counts) + 1
                /\ Len(collected') >= Len(collected)
                /\ SubSeq(collected', 1, Len(collected)) = collected

\* C27: A channel never performs more expansions than its ceiling
\* (review_max_clicks, photo_max_scrolls), also when every expansion grows
\* the count; the loop ends at once when the click or the scroll fails; after
\* every successful expansion the page is extracted again and merged into
\* what was collected.
C27_CeilingBoundsExpansion == []WithinCeiling /\ [][ExpandsAndMerges]_vars

\* Three expansions under a ceiling of three, each of which grew the count.
C27_GrewUntilCeiling ==
    /\ InLoop
    /\ Ceiling(channel) = 3
    /\ click_index = 3
    /\ counts = <<0, 1, 2, 3>>
    /\ stop_reason = "exhausted"

(***************************************************************************)
(* Properties of _retry_action and the safe wrappers (SpecRetry).          *)
(***************************************************************************)
Succeeded(entry) == entry.outcome \in {"ok", "not_list"}

\* The invocations of round r, in order.
InRound(r) == {i \in 1..Len(action_log) : action_log[i].round = r}

RoundsRun == {r \in 1..Len(retry_frame.present) : retry_frame.present[r]}

\* C28: _retry_action invokes the action at most MAX_RETRY_ATTEMPTS (3)
\* times, returns with the first invocation that succeeds and invokes
\* nothing after it, and raises only when every attempt has failed, the
\* error of the last attempt; the wrapper that called it returns False (or
\* an empty list) when its last round raised, and never raises.
C28_RetryContract ==
    /\ \A i \in 1..Len(action_log) :
          /\ action_log[i].attempt \in 1..MAX_RETRY_ATTEMPTS
          /\ action_log[i].attempt = Cardinality({j \in InRound(action_log[i].round) : j <= i})
          /\ Succeeded(action_log[i]) => i = Len(action_log) /\ retry_frame.pc = "done"
    /\ \A r \in RoundsRun :
          (\E k \in 1..Len(retry_frame.raised) : retry_frame.raised[k].round = r)
              <=> /\ Cardinality(InRound(r)) = MAX_RETRY_ATTEMPTS
                  /\ \A i \in InRound(r) : ~Succeeded(action_log[i])
    /\ \A k \in 1..Len(retry_frame.raised) :
          \E i \in InRound(retry_frame.raised[k].round) :
              /\ action_log[i].attempt = MAX_RETRY_ATTEMPTS
              /\ action_log[i].outcome = retry_frame.raised[k].exc
    /\ retry_frame.pc = "done" =>
          /\ retry_frame.outcome \in {"True", "False", "list", "empty"}
          /\ (action_log = <<>> \/ ~Succeeded(action_log[Len(action_log)])) =>
                /\ retry_frame.outcome = (IF retry_frame.wrapper = "extract" THEN "empty"
                                          ELSE "False")
                /\ \A r \in RoundsRun : \E k \in 1..Len(retry_frame.raised) :
                        retry_frame.raised[k].round = r
          /\ retry_frame.outcome \in {"True", "list"} =>
                action_log # <<>> /\ Succeeded(action_log[Len(action_log)])
          /\ retry_frame.outcome = "list" => action_log[Len(action_log)].outcome = "ok"

\* _safe_scroll: the mouse wheel timed out, failed and timed out again, the
\* round was given up with the timeout, and window.scrollBy succeeded at its
\* second attempt.
C28_SecondRoundSucceeds ==
    /\ retry_frame.pc = "done"
    /\ retry_frame.wrapper = "scroll"
    /\ retry_frame.outcome = "True"
    /\ retry_frame.raised = <<[round |-> 1, exc |-> "timeout", attempt |-> 3]>>
    /\ [i \in 1..Len(action_log) |-> action_log[i].outcome]
          = <<"timeout", "error", "timeout", "error", "ok">>

(***************************************************************************)
(* The browser sessions and the mapping of one crawl_naver_place_bundle    *)
(* call (SpecBundle).                                                      *)
(***************************************************************************)
Sessions == {mapping_session, browser_session}

\* The entries of close_errors are the close functions that were called and
\* raised, in the order of the calls.
RECURSIVE IsSubsequence(_, _)
IsSubsequence(part, whole) ==
    IF part = <<>> THEN TRUE
    ELSE IF whole = <<>> THEN FALSE
    ELSE IF Head(part) = Head(whole) THEN IsSubsequence(Tail(part), Tail(whole))
    ELSE IsSubsequence(part, Tail(whole))

C30_MappedOnlyAboveFloor ==
    /\ HasResolved =>
          /\ mapping_payload.status \in {"MAPPED", "SKIPPED"}
          /\ mapping_payload.status = "MAPPED" =>
                /\ mapping_payload.crawlable
                /\ mapping_payload.naver_place_id # NoneStr
                /\ mapping_payload.confidence >= 5000
                /\ mapping_payload.confidence <= 10000
                /\ SearchRan /\ ScoredFound # <<>>
                /\ mapping_payload.naver_place_id = ScoredFound[1].naver_place_id
                /\ mapping_payload.confidence = ScoredFound[1].confidence
          /\ mapping_payload.status # "MAPPED" => IsUnresolved
    /\ browser_session.state # "none" =>
          /\ HasResolved
          /\ crawl_result.mapping = mapping_payload
          /\ mapping_payload.status = "MAPPED"
    /\ crawl_pc = "done" /\ mapping_payload.status # "MAPPED" =>
          /\ crawl_result.status = "SKIPPED"
          /\ crawl_result.skip_reason = mapping_payload.reason
          /\ crawl_result.reviews = <<>> /\ crawl_result.photos = <<>>

\* The only candidate scored 0.312: the mapping is SKIPPED as low_confidence
\* and the crawl returned without a browser session.
C30_SkippedBelowFloor ==
    /\ crawl_pc = "done"
    /\ found = <<Candidate("n5", "Pool hall", 40, 0, NoneInt)>>
    /\ mapping_payload.reason = "low_confidence"
    /\ mapping_payload.confidence = 3120
    /\ IsUnresolved
    /\ crawl_result.status = "SKIPPED"
    /\ browser_session = NoSession
    /\ page_visits = <<>>

(***************************************************************************)
(* The document of the directory picked for a place (SpecLookup).          *)
(***************************************************************************)
HasPlaceId(doc, place_id) == StripId(place_id) # "" /\ StripId(doc.id) = StripId(place_id)

Named(doc) == Strip(doc.place_name) # ""

\* C21: When the place's identifier is known and a document of the lookup
\* has it, the first such document is the one picked, whatever its name
\* similarity and distance and however the other documents score (it may
\* even have no name).  Without such a document the pick is the first
\* named document of the highest score, or nothing.
C21_ExactIdWins ==
    kakao_lookup.pc = "returned" =>
        LET documents == kakao_lookup.documents
            place_id == kakao_lookup.kakao_place_id
            best_doc == kakao_lookup.best_doc
        IN /\ \A i \in 1..Len(documents) :
                 (HasPlaceId(documents[i], place_id)
                     /\ \A j \in 1..(i - 1) : ~HasPlaceId(documents[j], place_id))
                 => best_doc = documents[i]
           /\ (\A i \in 1..Len(documents) : ~HasPlaceId(documents[i], place_id)) =>
                 IF \A i \in 1..Len(documents) : ~Named(documents[i])
                 THEN best_doc = None
                 ELSE \E i \in 1..Len(documents) :
                         /\ best_doc = documents[i]
                         /\ Named(best_doc)
                         /\ \A j \in 1..Len(documents) :
                               Named(documents[j]) =>
                                   /\ DocumentScore(documents[j]) <= DocumentScore(best_doc)
                                   /\ j < i => DocumentScore(documents[j]) < DocumentScore(best_doc)

\* The document with the place's identifier is picked although it is the
\* last of the list, has a name similarity of 0.1 and no distance, and a
\* document of the same name as the place lies 100 m away.
C21_WeakNameStillPicked ==
    /\ kakao_lookup.pc = "returned"
    /\ kakao_lookup.kakao_place_id = "kakao-1"
    /\ kakao_lookup.documents = << KakaoDocument("kakao-2", "Bowling", 100, 100),
                                   KakaoDocument("kakao-1", "Pool hall", 10, NoneInt) >>
    /\ kakao_lookup.best_doc = KakaoDocument("kakao-1", "Pool hall", 10, NoneInt)

(***************************************************************************)
(* The feature store after any sequence of ingestions (SpecStore).         *)
(***************************************************************************)
\* The calls of the upsert for one place.
UpsertsOf(kakao_place_id) ==
    { i \in 1..Len(upsert_log) : upsert_log[i].kakao_place_id = kakao_place_id }

LastUpsertOf(kakao_place_id) ==
    CHOOSE i \in UpsertsOf(kakao_place_id) : \A j \in UpsertsOf(kakao_place_id) : j <= i

\* C22: After any sequence of ingestions the feature store holds exactly
\* one record for each place ingested and none for any other; the record
\* keeps the id it was created with, and its mapping (status, identifier,
\* confidence) and review count are those of the latest ingestion of the
\* place, whatever the earlier ones stored.
C22_OneRecordPerPlace ==
    /\ \A i, j \in 1..Len(feature_table) :
          feature_table[i].kakao_place_id = feature_table[j].kakao_place_id => i = j
    /\ { feature_table[i].kakao_place_id : i \in 1..Len(feature_table) }
          = { upsert_log[i].kakao_place_id : i \in 1..Len(upsert_log) }
    /\ \A i \in 1..Len(feature_table) :
          LET row == feature_table[i]
              latest == upsert_log[LastUpsertOf(row.kakao_place_id)]
          IN /\ row.feature_payload.naver_mapping = latest.naver_mapping
             /\ row.latest_review_count = Len(latest.reviews)
             /\ row.id \in UpsertsOf(row.kakao_place_id)
             /\ \A j \in UpsertsOf(row.kakao_place_id) : row.id <= j

\* The place was ingested with confidence 0.702 and then with 0.7378: its
\* one record holds 0.7378.
C22_SecondIngestionOverwrites ==
    /\ Len(upsert_log) = 2
    /\ upsert_log[1].kakao_place_id = "kakao-1"
    /\ upsert_log[2].kakao_place_id = "kakao-1"
    /\ upsert_log[1].naver_mapping.confidence = 7020
    /\ upsert_log[2].naver_mapping.confidence = 7378
    /\ Len(feature_table) = 1
    /\ feature_table[1].feature_payload.naver_mapping.confidence = 7378
    /\ feature_table[1].feature_payload.naver_mapping.naver_place_id = "n3"

\* The photos of a stored record: a non-empty sample with a positive count.
HasPhotos(row) == row.latest_photo_count > 0 /\ row.feature_payload.latest_photo_sample # <<>>

\* One ingestion leaves the photos of every record that had some: replaced
\* by the photos it collected, or kept as they were when it collected none.
PhotosSurvive ==
    upsert_log' # upsert_log =>
        LET call == upsert_log'[Len(upsert_log')] IN
        \A i \in 1..Len(feature_table) :
            HasPhotos(feature_table[i]) =>
                /\ feature_table'[i].kakao_place_id = feature_table[i].kakao_place_id
                /\ HasPhotos(feature_table'[i])
                /\ (call.kakao_place_id = feature_table[i].kakao_place_id /\ call.photos = <<>>) =>
                      /\ feature_table'[i].latest_photo_count = feature_table[i].latest_photo_count
                      /\ feature_table'[i].feature_payload.latest_photo_sample
                            = feature_table[i].feature_payload.latest_photo_sample
                /\ (call.kakao_place_id = feature_table[i].kakao_place_id /\ call.photos # <<>>) =>
                      /\ feature_table'[i].latest_photo_count = Len(call.photos)
                      /\ feature_table'[i].feature_payload.latest_photo_sample = call.photos

\* C39: Once the record of a place holds a non-empty photo sample with a
\* positive count, an ingestion of the place that collects no photo keeps
\* that sample and count; over any sequence of ingestions the sample of a
\* place never goes from non-empty to empty.
C39_PhotosNeverEmptied == [][PhotosSurvive]_vars

\* The place was ingested with two photos and then with none: its record
\* still holds the two photos, with the review count of the second ingestion.
C39_KeptAfterEmptyCrawl ==
    /\ Len(upsert_log) = 2
    /\ upsert_log[1].kakao_place_id = "kakao-1" /\ upsert_log[1].photos = <<"p1", "p2">>
    /\ upsert_log[1].reviews = <<>>
    /\ upsert_log[2].kakao_place_id = "kakao-1" /\ upsert_log[2].photos = <<>>
    /\ upsert_log[2].reviews = <<"r1">>
    /\ Len(feature_table) = 1
    /\ feature_table[1].latest_photo_count = 2
    /\ feature_table[1].latest_review_count = 1
    /\ feature_table[1].feature_payload.latest_photo_sample = <<"p1", "p2">>

(***************************************************************************)
(* The expiry of the in-process cache (Spec).                              *)
(***************************************************************************)
\* The lookup of the request was answered by the in-process cache.
MemoryLookupStep == pc = "lookup" /\ pc' # "lookup" /\ cache_backend' = "memory"

HasEntry(cache, key) == key \in DOMAIN cache

\* A lookup in the in-process cache is a hit only on an entry whose expiry
\* lies ahead; an entry at or past its expiry is dropped and the request
\* goes on to the station search.
ExpiredIsEvicted ==
    MemoryLookupStep =>
        /\ pc' = "done" =>
              /\ HasEntry(memory_cache, cache_key)
              /\ memory_cache[cache_key][1] > now
              /\ response'.meta.cache_hit
        /\ (HasEntry(memory_cache, cache_key) /\ memory_cache[cache_key][1] <= now) =>
              /\ pc' = "stations"
              /\ response' = None
              /\ ~HasEntry(memory_cache', cache_key)

\* C31: The in-process cache never serves an entry at or after its expiry
\* (the time of the write plus the time to live): the lookup that finds
\* such an entry drops it and reports a miss, and the aggregation that
\* follows writes the entry again with the expiry counted from its own time.
C31_ExpiredEntryNotServed ==
    /\ [](\A key \in DOMAIN memory_cache : memory_cache[key][1] <= now + CacheTtl)
    /\ []((pc = "enqueue" /\ cache_backend = "memory") =>
             /\ HasEntry(memory_cache, cache_key)
             /\ memory_cache[cache_key][1] = now + CacheTtl
             /\ StoredAs(response, memory_cache[cache_key][2]))
    /\ [][ExpiredIsEvicted]_vars

\* The second request comes exactly when the entry of the first expires: it
\* is a miss, and after its own aggregation the entry is in the cache with
\* a new expiry.
C31_RewrittenAfterExpiry ==
    /\ pc = "enqueue"
    /\ served = 1
    /\ last.kind = "miss"
    /\ last.stored_in = "memory"
    /\ last.cache_key = cache_key
    /\ now = last.at + CacheTtl
    /\ cache_lookups = 1
    /\ ~response.meta.cache_hit
    /\ cache_backend = "memory"
    /\ memory_cache[cache_key][1] = now + CacheTtl

(***************************************************************************)
(* The hotplaces a cache hit returns (SpecRerank).                         *)
(***************************************************************************)
\* The feature of a place as the later request reads it: nothing without a
\* session, when the query raises, and when no place of the list has a row.
FeatureAtHit(kakao_place_id) ==
    FeatureOf(_fetch_hotplace_feature_map(session, feature_rows, IdsOf(ranked_hotplaces)),
              kakao_place_id)

CachedAs(hotplace) ==
    CHOOSE i \in 1..Len(ranked_hotplaces) :
        ranked_hotplaces[i].kakao_place_id = hotplace.kakao_place_id

\* What the hit returned holds, for every hotplace of the cache entry the
\* store does not hide now, the rating and rating count the store has for
\* it now and, where the store has none or could not be read, those of the
\* cache entry; it is scored for the later request and in ranking order.
HitReflectsStore ==
    rank_pc = "hit" =>
        /\ IdsOf(enriched) =
              { id \in IdsOf(ranked_hotplaces) :
                    ~_should_hide_hotplace_for_mapping_issue(FeatureAtHit(id)) }
        /\ \A i \in 1..Len(enriched) :
              LET hotplace == enriched[i]
                  cached == ranked_hotplaces[CachedAs(hotplace)]
                  feature == FeatureAtHit(hotplace.kakao_place_id)
              IN /\ hotplace.naver_rating =
                       IF _to_optional_rating(feature.naver_rating) # NoneInt
                       THEN feature.naver_rating ELSE cached.naver_rating
                 /\ hotplace.naver_rating_count =
                       IF _to_optional_positive_int(feature.naver_rating_count) # NoneInt
                       THEN feature.naver_rating_count ELSE cached.naver_rating_count
                 /\ hotplace.ranking_score = RankingScore(hotplace, rank_request)
                 /\ hotplace.distance = cached.distance
        /\ \A i, j \in 1..Len(enriched) : i < j => RankedBefore(enriched[i], enriched[j])

\* C32: On a cache hit the hotplaces of the cache entry are enriched from
\* the feature store as it is now and ranked for the request of the hit:
\* a returned hotplace has the rating the store holds for it now when the
\* store can be read and holds one, and the rating of the cache entry
\* otherwise; a hotplace the store hid at the cache write is not in the
\* entry and is not returned; the hit does not write the cache entry.
C32_HitRefreshesFromStore ==
    /\ []HitReflectsStore
    /\ [][rank_pc = "cached" => ranked_hotplaces' = ranked_hotplaces]_vars

\* The hit returned place 22 with the rating of 3.0 the store holds now
\* (4.2 at the cache write) and place 66 with the 4.5 of the cache entry,
\* the store holding no rating for it any more.
C32_NewRatingAndKeptRating ==
    /\ rank_pc = "hit"
    /\ session = "ok"
    /\ feature_rows = RowsAtHit
    /\ \E i, j \in 1..Len(enriched) :
          /\ enriched[i].kakao_place_id = 22 /\ enriched[i].naver_rating = 300
          /\ enriched[j].kakao_place_id = 66 /\ enriched[j].naver_rating = 450
    /\ \E i \in 1..Len(ranked_hotplaces) :
          ranked_hotplaces[i].kakao_place_id = 22 /\ ranked_hotplaces[i].naver_rating = 420

\* C32 as claimed: every hotplace returned by a hit that read the feature
\* store carries the rating and the rating count the store holds for the
\* place at the time of the hit, whatever the store held at the cache write.
C32_AsClaimed ==
    (rank_pc = "hit" /\ session = "ok") =>
        \A i \in 1..Len(enriched) :
            enriched[i].kakao_place_id \in DOMAIN feature_rows =>
                LET row == feature_rows[enriched[i].kakao_place_id] IN
                /\ enriched[i].naver_rating = _to_optional_rating(row.average_rating)
                /\ enriched[i].naver_rating_count = _to_optional_positive_int(row.rating_count)

(***************************************************************************)
(* C33.  A channel none of whose candidate URLs gives a usable page.       *)
(***************************************************************************)
VisitsOf(channel_name) == SelectSeq(page_visits, LAMBDA visit : visit.channel = channel_name)

\* The channel went to its URLs in the order of the list and stopped at the
\* first usable page.
InListOrder(channel_name) ==
    LET visited == VisitsOf(channel_name) IN
    /\ Len(visited) <= Len(ChannelUrls(channel_name))
    /\ \A i \in 1..Len(visited) :
          /\ visited[i].url = ChannelUrls(channel_name)[i]
          /\ visited[i].found = "usable" => i = Len(visited)

NoneUsable(channel_name) ==
    LET visited == VisitsOf(channel_name) IN
    /\ Len(visited) = Len(ChannelUrls(channel_name))
    /\ \A i \in 1..Len(visited) : visited[i].found # "usable"

\* The channel that could not open extracted and expanded nothing; the one
\* that opened is on the first usable page.
OpenedOrEmpty ==
    crawl_pc = "loop" =>
        IF stop_reason = "open_failed"
        THEN /\ NoneUsable(channel)
             /\ collected = <<>>
             /\ counts = <<>>
             /\ click_index = 0
        ELSE /\ VisitsOf(channel) # <<>>
             /\ VisitsOf(channel)[Len(VisitsOf(channel))].found = "usable"

\* The only step of a channel that could not open is its return: empty, no
\* warning added, the photos channel next after the reviews channel, and a
\* bundle that is not failed after the photos channel.
UnopenedReturnsEmpty ==
    (crawl_pc = "loop" /\ stop_reason = "open_failed") =>
        /\ warnings' = warnings
        /\ page_visits' = page_visits
        /\ IF channel = "reviews"
           THEN /\ crawl_pc' = "open"
                /\ channel' = "photos"
                /\ crawl_result'.reviews = <<>>
                /\ crawl_result'.rating_summary = FALSE
                /\ crawl_result'.status = crawl_result.status
           ELSE /\ crawl_pc' = "done"
                /\ crawl_result'.photos = <<>>
                /\ crawl_result'.reviews = crawl_result.reviews
                /\ crawl_result'.status \in {"COMPLETED", "PARTIAL"}
                /\ crawl_result'.status = "PARTIAL" <=> warnings # <<>>

\* C33: a channel none of whose candidate URLs is usable (the navigation
\* failed or the page is thin) returns empty without raising, extracts and
\* expands nothing; the URLs are tried in list order and the first usable
\* one is used; the other channel still runs and the crawl does not fail.
C33_UnusableChannelReturnsEmpty ==
    /\ [](InListOrder("reviews") /\ InListOrder("photos") /\ OpenedOrEmpty)
    /\ [][UnopenedReturnsEmpty]_vars

\* The reviews channel found one URL unreachable and the other thin, the
\* photos channel ran on its second URL after a thin first one, and the
\* crawl completed with photos and without a warning.
C33_PhotosAfterUnopenedReviews ==
    /\ crawl_pc = "done"
    /\ NoneUsable("reviews")
    /\ \E i \in 1..2 : VisitsOf("reviews")[i].found = "goto_failed"
    /\ \E i \in 1..2 : VisitsOf("reviews")[i].found = "thin"
    /\ Len(VisitsOf("photos")) = 2
    /\ VisitsOf("photos")[1].found = "thin"
    /\ crawl_result.reviews = <<>>
    /\ crawl_result.photos # <<>>
    /\ crawl_result.status = "COMPLETED"
    /\ crawl_result.warnings = <<>>

(***************************************************************************)
(* C34.  The recrawl cooldown of the ingestion enqueue.                    *)
(***************************************************************************)
CooldownOn ==
    /\ recrawl_filter.pc = "returned"
    /\ recrawl_filter.enable_ingestion_enqueue
    /\ recrawl_filter.ingestion_min_recrawl_minutes > 0

\* The place has a row whose last_ingested_at is less than the window ago.
InWindow(kakao_place_id) ==
    /\ kakao_place_id \in DOMAIN recrawl_filter.feature_rows_at
    /\ recrawl_filter.feature_rows_at[kakao_place_id] # NoneInt
    /\ recrawl_filter.feature_rows_at[kakao_place_id]
          > recrawl_filter.utcnow - recrawl_filter.ingestion_min_recrawl_minutes

OutsideWindow == SelectSeq(recrawl_filter.hotplaces, LAMBDA id : ~InWindow(id))

\* One job was asked for, with exactly the given list.
AskedFor(hotplaces) ==
    IF hotplaces = <<>> THEN recrawl_filter.create_calls = <<>>
    ELSE recrawl_filter.create_calls = <<hotplaces>>

\* C34 (amended): with ingestion enqueue enabled, a positive cooldown and a
\* feature store that was read (a session whose query succeeded), the list
\* handed to the job creation is the candidates without those ingested less
\* than the window ago, in order, and no job is asked for when that list is
\* empty; without a session, or when the query raises, every candidate is
\* handed over.
C34_CooldownFiltersWithReadableStore ==
    CooldownOn =>
        IF recrawl_filter.db_session = "ok" THEN AskedFor(OutsideWindow)
        ELSE AskedFor(recrawl_filter.hotplaces)

\* Of two candidates the first was ingested a minute ago, inside a window
\* of two minutes, and the second exactly two minutes ago: the job was
\* created with the second only.
C34_RecentLeftOutOlderEnqueued ==
    /\ CooldownOn
    /\ recrawl_filter.db_session = "ok"
    /\ recrawl_filter.ingestion_min_recrawl_minutes = 2
    /\ recrawl_filter.hotplaces = <<22, 66>>
    /\ DOMAIN recrawl_filter.feature_rows_at = {22, 66}
    /\ recrawl_filter.feature_rows_at[22] = recrawl_filter.utcnow - 1
    /\ recrawl_filter.feature_rows_at[66] = recrawl_filter.utcnow - 2
    /\ recrawl_filter.created_jobs = <<(<<66>>)>>

\* C34 as claimed: whenever ingestion enqueue is enabled with a positive
\* cooldown, the candidates ingested less than the window ago are left out
\* and no job is asked for when none is left.
C34_AsClaimed == CooldownOn => AskedFor(OutsideWindow)

(***************************************************************************)
(* C35.  A failed request and the cache.                                   *)
(***************************************************************************)
\* The step puts an entry into a store or changes one.
WritesEntry(store, store_after) ==
    \E k \in DOMAIN store_after : k \notin DOMAIN store \/ store_after[k] # store[k]

\* A request that has failed built no response and asked for no job.
FailedAskedNothing ==
    result.kind = "raised" =>
        /\ pc = "done"
        /\ response = None
        /\ enqueue_calls = 0
        /\ ingestion_jobs = 0

\* Entries are written by the cache write only, and the request that has
\* reached the cache write returns.
WrittenOnlyBySuccess ==
    /\ (WritesEntry(memory_cache, memory_cache') \/ WritesEntry(redis_store, redis_store'))
          => pc = "cache_write"
    /\ pc \in {"cache_write", "enqueue"} => result'.kind # "raised"

\* The request has ended and is the same as the one before it.
RepeatsLast == served > 0 /\ pc = "done" /\ request = last.request

\* C35 (amended): a request that fails, at the budget guard or because an
\* anchor or keyword search failed, writes and overwrites no cache entry
\* and enqueues no ingestion job; the identical request after a failed
\* search is a miss that calls the directory again, and the identical
\* request after a failure at the guard fails at the guard again, before
\* any lookup and any directory call.
C35_FailureWritesNothing ==
    /\ [](FailedAskedNothing
          /\ (RepeatsLast /\ last.kind = "failed" => ~IsHit /\ station_calls >= 1)
          /\ (RepeatsLast /\ last.kind = "blocked" =>
                 /\ result.kind = "raised"
                 /\ result.status_code = HTTP_400_BAD_REQUEST
                 /\ cache_lookups = 0
                 /\ station_calls = 0))
    /\ [][WrittenOnlyBySuccess]_vars

\* A keyword search of the first request failed; the same request again
\* found no entry, searched the directory and was aggregated.
C35_MissAfterFailure ==
    /\ RepeatsLast
    /\ last.kind = "failed"
    /\ IsAggregated
    /\ station_calls = 1
    /\ keyword_queries # <<>>

\* C35 as claimed: the identical request after any failed request, the one
\* failed at the guard included, is a miss that calls the directory again.
C35_AsClaimed ==
    /\ [](FailedAskedNothing
          /\ (RepeatsLast /\ last.kind \in {"failed", "blocked"} =>
                 ~IsHit /\ station_calls >= 1))
    /\ [][WrittenOnlyBySuccess]_vars

(***************************************************************************)
(* C36.  The aggregation and the order in which the searches answer.       *)
(***************************************************************************)
\* What the calls return, in the order in which they were created.
ResultsAsCreated ==
    [ i \in 1..Len(tasks) |->
        <<tasks[i].station.station_name, tasks[i].keyword, directory[tasks[i].keyword]>> ]

\* The keywords whose search returns a document that gives a hotplace with
\* this id.
KeywordsReturning(kakao_place_id) ==
    { k \in 1..Len(applied_keywords) :
        \E d \in 1..Len(directory[applied_keywords[k]]) :
            LET hotplace == _build_hotplace(directory[applied_keywords[k]][d], "", "")
            IN hotplace # None /\ hotplace.kakao_place_id = kakao_place_id }

EarliestKeyword(kakao_place_id) ==
    applied_keywords[CHOOSE k \in KeywordsReturning(kakao_place_id) :
                        \A other \in KeywordsReturning(kakao_place_id) : k <= other]

\* C36: the response of a successful aggregation is the one of the results
\* merged in the order in which the calls were created, whatever the order
\* in which they answered and whatever the width; a hotplace returned for
\* several keywords keeps the keyword earliest in the list.
C36_MergedInCreationOrder ==
    IsAggregated =>
        /\ response.hotplaces =
              _rank_hotplaces(
                  _attach_hotplace_features(deduped_hotplaces(ResultsAsCreated)), request)
        /\ \A i \in 1..Len(response.hotplaces) :
              response.hotplaces[i].source_keyword =
                  EarliestKeyword(response.hotplaces[i].kakao_place_id)
        /\ response.meta.keyword_request_count = Len(tasks)

\* With several calls in flight one answered before a call created earlier;
\* the three places returned twice keep the first or the second keyword.
C36_AnsweredOutOfOrder ==
    /\ IsAggregated
    /\ keyword_concurrency > 1
    /\ overtaken
    /\ {<<response.hotplaces[i].kakao_place_id, response.hotplaces[i].source_keyword>> :
           i \in 1..Len(response.hotplaces)} = {<<11, 1>>, <<22, 1>>, <<55, 2>>}

(***************************************************************************)
(* C37, C38.  The rows ingest_job leaves behind.                           *)
(***************************************************************************)
RunEnded == ingest_run.pc = "ended" /\ ingest_run.job_found

ItemsWith(statuses) ==
    Cardinality({i \in 1..Len(ingest_run.item_status) : ingest_run.item_status[i] \in statuses})

\* C37: after ingest_job ends for an existing job, by return or by raise,
\* the job is COMPLETED, PARTIAL or FAILED and no item is PROCESSING: every
\* item that was started is COMPLETED, SKIPPED or FAILED.
C37_NothingLeftProcessing ==
    RunEnded =>
        /\ ingest_run.job_status \in {"COMPLETED", "PARTIAL", "FAILED"}
        /\ \A i \in 1..Len(ingest_run.item_status) :
              /\ ingest_run.item_status[i] # "PROCESSING"
              /\ i <= ingest_run.position =>
                    ingest_run.item_status[i] \in {"COMPLETED", "SKIPPED", "FAILED"}

\* C38: when ingest_job finishes normally, completed_items + failed_items =
\* total_items with the skipped items among the completed ones, and the
\* job is COMPLETED when no item failed (a job without items included),
\* FAILED when an item failed and none completed, PARTIAL otherwise.
C38_CountsAndFinalStatus ==
    (RunEnded /\ ingest_run.ended # "raised") =>
        /\ ingest_run.completed_items + ingest_run.failed_items = ingest_run.total_items
        /\ ingest_run.total_items = Len(ingest_run.item_status)
        /\ ingest_run.completed_items = ItemsWith({"COMPLETED", "SKIPPED"})
        /\ ingest_run.skipped_items = ItemsWith({"SKIPPED"})
        /\ ingest_run.failed_items = ItemsWith({"FAILED"})
        /\ ingest_run.job_completed_items = ingest_run.completed_items
        /\ ingest_run.job_failed_items = ingest_run.failed_items
        /\ ingest_run.job_status = ingest_run.ended
        /\ ingest_run.job_status =
              (IF ItemsWith({"FAILED"}) = 0 THEN "COMPLETED"
               ELSE IF ItemsWith({"COMPLETED", "SKIPPED"}) = 0 THEN "FAILED"
               ELSE "PARTIAL")

\* Of two items the first was skipped by the crawl and the second failed:
\* the job is PARTIAL with one completed and one failed item.
C38_SkippedAndFailedIsPartial ==
    /\ RunEnded
    /\ ingest_run.item_status = <<"SKIPPED", "FAILED">>
    /\ ingest_run.job_status = "PARTIAL"
    /\ ingest_run.job_completed_items = 1
    /\ ingest_run.job_failed_items = 1

====
